---- MODULE Spec2Model ----
(***************************************************************************)
(* Spectrum-Saver: the log-file parser of common.cpp (parse_header,        *)
(* parse_logfile) as a state machine that reads its input stream one line  *)
(* per step.                                                               *)
(*                                                                         *)
(* Representation choices                                                  *)
(*  - A line is a sequence of tokens.  The first token stands for the      *)
(*    first character class of the line ("#", "$", or the start of a       *)
(*    value); the empty sequence is the empty line.  The other tokens of   *)
(*    a "$" line are its comma separated fields.                           *)
(*  - A floating-point value is [cls, v] with cls one of "num", "nan",     *)
(*    "inf"; comparisons follow IEEE 754 (every ordered comparison with a  *)
(*    NaN is false, != with a NaN is true).                                *)
(*  - A size_t value is represented by its two's-complement signed         *)
(*    reading: a small n stands for n and -k stands for 2^64 - k.  Sums    *)
(*    and products of small magnitudes are then exact modulo 2^64.         *)
(***************************************************************************)
EXTENDS Integers, Sequences, FiniteSets, TLC

\* ------------------------------------------------------------------ bounds
\* longest input stream (lines, comment lines included)
MaxLines == 7
\* most comment lines in one input stream
MaxComments == 2

\* ------------------------------------------------------------------ values
Num(n) == [cls |-> "num", v |-> n]

\* IEEE 754 comparisons, as the C++ operators <, <=, >, >=, != on double/float
FLt(a, b) ==
    /\ a.cls # "nan" /\ b.cls # "nan"
    /\ \/ a.cls = "num" /\ b.cls = "num" /\ a.v < b.v
       \/ a.cls = "inf" /\ a.v < 0 /\ b # a
       \/ b.cls = "inf" /\ b.v > 0 /\ b # a
FLe(a, b) == a.cls # "nan" /\ b.cls # "nan" /\ (a = b \/ FLt(a, b))
FGt(a, b) == FLt(b, a)
FGe(a, b) == FLe(b, a)
FNe(a, b) == a.cls = "nan" \/ b.cls = "nan" \/ a # b

\* std::isfinite
isfinite(x) == x.cls = "num"

\* rounding of an integer to the nearest single-precision float (24-bit
\* significand, ties to even); exact below 2^24, steps of 2 up to 2^25
RoundToFloat(n) ==
    LET a == IF n < 0 THEN -n ELSE n
        r == IF a < 2^24 \/ a % 2 = 0 THEN a
             ELSE IF ((a - 1) \div 2) % 2 = 0 THEN a - 1 ELSE a + 1
    IN  IF n < 0 THEN -r ELSE r

\* SIZE_MAX (2^64 - 1) in the signed reading of size_t
SIZE_MAX == -1

\* ------------------------------------------------------------------ lines
Tok(k, n) == [k |-> k, v |-> n]
IsNumberText(t) == t.k \in {"num", "nan", "inf"}

HASH == Tok("#", 0)
DOLLAR == Tok("$", 0)
JUNK == Tok("junk", 0)
\* a timestamp text; its digits HHMMSS are the number s (the date is fixed)
TimeTok(s) == Tok("time", s)

\* line[0]: the first character of a line; '\0' for the empty line
FirstChar(ln) == IF Len(ln) = 0 THEN "NUL" ELSE ln[1].k

HeaderLine(sf, ef, st, rb, ts, te) == <<DOLLAR, sf, ef, st, rb, ts, te>>

ZeroHeader ==
    [start_freq |-> Num(0), stop_freq |-> Num(0), steps |-> 0, rbw |-> Num(0),
     start_time |-> JUNK, end_time |-> JUNK]

\* ------------------------------------------------------------ parse_header
\* sscanf conversions of "$ %lf,%lf,%zu,%f,%31[^,],%31[^,]": field n of the
\* line converts when it is present and has the shape the conversion accepts
Converts(ln, n) ==
    /\ Len(ln) >= n + 1
    /\ CASE n \in {1, 2, 4} -> IsNumberText(ln[n + 1])
         [] n = 3 -> ln[n + 1].k = "num"
         [] OTHER -> TRUE

\* the value sscanf returns: the number of leading conversions that succeed
sscanf_ret(ln) == Cardinality({n \in 1..6 : \A m \in 1..n : Converts(ln, m)})

ToDouble(t) == [cls |-> t.k, v |-> t.v]
ToFloat(t) == [cls |-> t.k, v |-> IF t.k = "num" THEN RoundToFloat(t.v) ELSE t.v]

\* the header sscanf fills in when all six conversions succeed
ScannedHeader(ln) ==
    [start_freq |-> ToDouble(ln[2]), stop_freq |-> ToDouble(ln[3]),
     steps |-> ln[4].v, rbw |-> ToFloat(ln[5]),
     start_time |-> ln[6], end_time |-> ln[7]]

\* the sanity checks of parse_header: TRUE when none of them rejects
Sanity(h) ==
    /\ ~FGe(h.start_freq, h.stop_freq)
    /\ h.steps # 0
    /\ ~(FLe(h.rbw, Num(0)) \/ FGt(h.rbw, Num(1000)))

\* parse_header(line, h): [ret, h]
parse_header(ln) ==
    IF FirstChar(ln) # "$" THEN [ret |-> FALSE, h |-> ZeroHeader]
    ELSE IF sscanf_ret(ln) # 6 THEN [ret |-> FALSE, h |-> ZeroHeader]
    ELSE [ret |-> Sanity(ScannedHeader(ln)), h |-> ScannedHeader(ln)]

\* ------------------------------------------------------------------- stof
\* std::stof(line): converts the leading number text and ignores what
\* follows it; throws when the line does not start with a number
stof_throws(ln) == Len(ln) = 0 \/ ~IsNumberText(ln[1])
stof(ln) == ToFloat(ln[1])

\* ------------------------------------------------------------------ input
N(n) == Tok("num", n)
NANT == Tok("nan", 0)
INFT == Tok("inf", 1)
T0 == TimeTok(0)
T1 == TimeTok(100)

\* the numeric fields of the header lines the stream may hold: a base header
\* with each field varied in turn over the values the checks distinguish
HdrFields ==
    {<<N(1), N(3), N(st), N(1)>> : st \in {0, 1, 2, -1, -2}}
    \cup {<<sf, N(3), N(1), N(1)>> : sf \in {N(2), N(3), NANT}}
    \cup {<<N(1), ef, N(1), N(1)>> : ef \in {N(1), N(2), NANT}}
    \cup {<<N(1), N(3), N(1), rb>> : rb \in {N(0), N(1000), N(1001), NANT}}
    \cup {<<N(1), N(3), N(2), N(1000)>>}

HeaderLines ==
    {HeaderLine(f[1], f[2], f[3], f[4], T0, T1) : f \in HdrFields}
    \cup {<<DOLLAR>>,
          <<DOLLAR, N(1), N(3), JUNK, N(1), T0, T1>>,
          <<DOLLAR, N(1), N(3), N(1), N(1), T0>>}

DataLines ==
    {<<N(-50)>>, <<N(16777217), JUNK>>, <<NANT>>, <<INFT>>, <<JUNK>>}

CommentLines == {<<HASH, JUNK>>}
EmptyLine == << >>

LineSet == HeaderLines \cup DataLines \cup CommentLines \cup {EmptyLine}

\* ---------------------------------------------------------- parse_logfile
VARIABLES
    input,                  \* the lines read from logfile_stream so far
    real_line_count,
    in_record_line_count,
    lines_per_record,
    first_header,
    headers,
    power_data,
    role,                   \* the branch the last loop iteration took
    status,                 \* "running", "ok", "error" (throw) or "fault"
    err,                    \* the message of the StringException thrown
    err_line,               \* the line number that message reports (0: none)
    mod_zero                \* what this build does on x % 0, once evaluated

\* check_logfile_time_consistency: its position, locals and results
VARIABLES
    pc_check,               \* where the checker is, or how it ended
    time_diff,
    interval,
    last_interval,
    pair_i,                 \* the loop variable i
    problems,
    inconsistency_count,
    check_ret               \* the boolean returned

\* main of log2png
VARIABLES
    pc_main,                \* the next step of main, or "exit"
    steps_done,             \* the steps of main performed so far
    exit_code,
    logfile,                \* the lines of the log file named by -f
    file_opens,             \* whether logfile_stream.open succeeds
    do_gridlines

\* draw_vertical_gridlines and draw_spectrogram of log2png
VARIABLES
    grid_pc,                \* where draw_vertical_gridlines is, or how it ended
    gridline_exponent,      \* m * 10^e, held as [m, e]
    gridline_spacing,       \* m * 10^e, held as [m, e]; SIZE_MAX has m = -1
    draw_list,              \* the x of each DrawableLine, in order
    draw_pc,                \* the next step of the image processing part
    pixels,                 \* the cells of the pixel buffer written so far
    iter_pc,                \* per loop iteration i: the channels it has written
    channels                \* image.channels()

renderVars == <<grid_pc, gridline_exponent, gridline_spacing, draw_list,
                draw_pc, pixels, iter_pc, channels>>

\* the main of log2png that caps the number of records
VARIABLES
    cap_pc,                 \* the next step of that main after its parse
    main_record_count,      \* its record_count
    main_steps,             \* its steps
    reported_records,       \* the record count it has printed
    image_height            \* the height of the image it makes

capVars == <<cap_pc, main_record_count, main_steps, reported_records, image_height>>

\* a process that calls parse_logfile more than once
VARIABLES
    pending,                \* the streams it has still to parse
    results                 \* per call made: the stream and what the call left

twiceVars == <<pending, results>>

\* spsave: its main in loop mode, read_scanraw and awake_time
VARIABLES
    save_pc,                \* the next step of the sweep loop
    now,                    \* system_clock::now(), in ticks since the epoch
    wake,                   \* the time_point passed to sleep_until, in seconds
    sweep_start,            \* start_time: the second the sweep was started in
    sweep_interval,         \* interval, in seconds
    save_record_count,      \* record_count of main
    output,                 \* the open log file: its name and its records
    closed,                 \* the log files closed so far
    last_record,            \* the lines read_scanraw appended last
    scan_steps              \* steps, as sent in the scanraw command

saveVars == <<save_pc, now, wake, sweep_start, sweep_interval, save_record_count,
              output, closed, last_record, scan_steps>>

checkVars == <<pc_check, time_diff, interval, last_interval, pair_i, problems,
               inconsistency_count, check_ret>>
mainVars == <<pc_main, steps_done, exit_code, logfile, file_opens, do_gridlines>>

vars == <<input, real_line_count, in_record_line_count, lines_per_record,
          first_header, headers, power_data, role, status, err, err_line,
          mod_zero, checkVars, mainVars, renderVars, capVars,
          twiceVars, saveVars>>

\* a logproblem_t with no flag set
NoProblems ==
    [variant_interval |-> FALSE,
     time_range_not_divisible_by_record_count |-> FALSE,
     interval_not_divisible_by_60 |-> FALSE,
     negative_interval |-> FALSE,
     time_overlap |-> FALSE]

\* the checker has not been called
CheckIdle ==
    /\ pc_check = "idle" /\ time_diff = 0 /\ interval = 0 /\ last_interval = 0
    /\ pair_i = 0 /\ problems = NoProblems /\ inconsistency_count = 0
    /\ check_ret = FALSE

\* a decimal magnitude m * 10^e
Mag(m, e) == [m |-> m, e |-> e]

\* no image is being made
RenderIdle ==
    /\ grid_pc = "idle" /\ gridline_exponent = Mag(0, 0) /\ gridline_spacing = Mag(0, 0)
    /\ draw_list = << >> /\ draw_pc = "idle" /\ pixels = << >> /\ iter_pc = << >>
    /\ channels = 0

\* no further call of parse_logfile is under way
TwiceIdle == pending = << >> /\ results = << >>

\* spsave is not running
SaveIdle ==
    /\ save_pc = "idle" /\ now = 0 /\ wake = 0 /\ sweep_start = 0 /\ sweep_interval = 0
    /\ save_record_count = 0 /\ output = << >> /\ closed = << >> /\ last_record = << >>
    /\ scan_steps = 0

\* the capping main is not running
CapIdle ==
    /\ cap_pc = "idle" /\ main_record_count = 0 /\ main_steps = 0
    /\ reported_records = 0 /\ image_height = 0

\* main is not running
MainIdle ==
    /\ pc_main = "idle" /\ steps_done = {} /\ exit_code = "none"
    /\ logfile = << >> /\ file_opens = TRUE /\ do_gridlines = TRUE

\* the locals of parse_logfile and its two output vectors, as one record
Ctx ==
    [real_line_count |-> real_line_count,
     in_record_line_count |-> in_record_line_count,
     lines_per_record |-> lines_per_record,
     first_header |-> first_header,
     headers |-> headers,
     power_data |-> power_data,
     role |-> role, status |-> status, err |-> err, err_line |-> err_line,
     mod_zero |-> mod_zero]

\* parse_logfile's locals as declared, with the caller's empty vectors
InitCtx ==
    [real_line_count |-> 0,
     in_record_line_count |-> 0,
     lines_per_record |-> SIZE_MAX,
     first_header |-> [ZeroHeader EXCEPT !.start_time = Tok("empty", 0),
                                         !.end_time = Tok("empty", 0)],
     headers |-> << >>,
     power_data |-> << >>,
     role |-> "none", status |-> "running", err |-> "none", err_line |-> 0,
     mod_zero |-> "unevaluated"]

\* if_error(true, message): throws; the message names real_line_count
\* if_error reporting the line's position within its record
ThrowRecordLine(s, message) ==
    [s EXCEPT !.status = "error", !.err = message, !.err_line = s.in_record_line_count]

Throw(s, message) ==
    [s EXCEPT !.status = "error", !.err = message, !.err_line = s.real_line_count]

\* x % m on size_t for a small x: m in the upper half of the range exceeds x;
\* m = 0 is undefined, and where it does not trap the remainder is x
Rem(x, m) == IF m <= 0 THEN x ELSE x % m

IsComment(ln) == FirstChar(ln) = "#"

\* HeaderBranch without the rbw comparison of lines 138-140
HeaderBranchNoRbwCheck(s, ln) ==
    LET p == parse_header(ln)
        h == p.h
        f == s.first_header
    IN  IF ~p.ret THEN Throw(s, "invalid header")
        ELSE IF f.steps = 0
        THEN [s EXCEPT !.lines_per_record = h.steps + 2,
                       !.first_header = h,
                       !.headers = Append(@, h)]
        ELSE IF FNe(h.start_freq, f.start_freq) THEN Throw(s, "start_freq mismatch")
        ELSE IF FNe(h.stop_freq, f.stop_freq) THEN Throw(s, "stop_freq mismatch")
        ELSE IF h.steps # f.steps THEN Throw(s, "steps count mismatch")
        ELSE [s EXCEPT !.headers = Append(@, h)]

\* the header branch, lines 119-143
HeaderBranch(s, ln) ==
    LET p == parse_header(ln)
        h == p.h
        f == s.first_header
    IN  IF ~p.ret THEN Throw(s, "invalid header")
        ELSE IF f.steps = 0
        THEN [s EXCEPT !.lines_per_record = h.steps + 2,
                       !.first_header = h,
                       !.headers = Append(@, h)]
        ELSE IF FNe(h.start_freq, f.start_freq) THEN Throw(s, "start_freq mismatch")
        ELSE IF FNe(h.stop_freq, f.stop_freq) THEN Throw(s, "stop_freq mismatch")
        ELSE IF h.steps # f.steps THEN Throw(s, "steps count mismatch")
        ELSE IF FNe(h.rbw, f.rbw) THEN Throw(s, "rbw mismatch")
        ELSE [s EXCEPT !.headers = Append(@, h)]

\* TrailingBranch without the line.empty() check of line 148
TrailingBranchAnyLine(s, ln) == [s EXCEPT !.in_record_line_count = 0]

\* the trailing-newline branch, lines 147-149
TrailingBranch(s, ln) ==
    IF Len(ln) # 0 THEN Throw(s, "newline expected")
    ELSE [s EXCEPT !.in_record_line_count = 0]

\* DataBranch whose catch block does not rethrow: power keeps its initial 0
DataBranchSwallow(s, ln) ==
    IF stof_throws(ln) THEN [s EXCEPT !.power_data = Append(@, Num(0))]
    ELSE IF ~isfinite(stof(ln)) THEN Throw(s, "invalid power value")
    ELSE [s EXCEPT !.power_data = Append(@, stof(ln))]

\* DataBranch without the isfinite check of lines 164-165
DataBranchNoFinite(s, ln) ==
    IF stof_throws(ln) THEN Throw(s, "failed to parse double")
    ELSE [s EXCEPT !.power_data = Append(@, stof(ln))]

\* DataBranch that inserts at the front of power_data
DataBranchPrepend(s, ln) ==
    IF stof_throws(ln) THEN Throw(s, "failed to parse double")
    ELSE IF ~isfinite(stof(ln)) THEN Throw(s, "invalid power value")
    ELSE [s EXCEPT !.power_data = <<stof(ln)>> \o @]

\* the data branch, lines 153-166
DataBranch(s, ln) ==
    IF stof_throws(ln) THEN Throw(s, "failed to parse double")
    ELSE IF ~isfinite(stof(ln)) THEN Throw(s, "invalid power value")
    ELSE [s EXCEPT !.power_data = Append(@, stof(ln))]

\* the role of a non-comment line, from its position modulo lines_per_record
LineRole(count, lpr) ==
    IF Rem(count, lpr) = 1 THEN "header"
    ELSE IF Rem(count, lpr) = 0 THEN "trailing"
    ELSE "data"

\* CommentBranch that counts the comment line as a line of the record
CommentBranchCounted(s) ==
    [s EXCEPT !.role = "comment", !.in_record_line_count = @ + 1]

\* the comment branch, lines 111-112: continue
CommentBranch(s) == [s EXCEPT !.role = "comment"]

\* one iteration of the while(getline) loop on line ln; mz is what the build
\* does should this iteration be the first to evaluate a modulus by zero
LoopBody(s, ln, mz) ==
    LET s1 == [s EXCEPT !.real_line_count = @ + 1]
        s2 == [s1 EXCEPT !.in_record_line_count = @ + 1]
        z  == IF s.mod_zero = "unevaluated" THEN mz ELSE s.mod_zero
        s3 == IF s2.lines_per_record = 0 THEN [s2 EXCEPT !.mod_zero = z] ELSE s2
        r  == LineRole(s3.in_record_line_count, s3.lines_per_record)
    IN  IF IsComment(ln) THEN CommentBranch(s1)
        ELSE IF s3.lines_per_record = 0 /\ z = "trap"
        THEN [s3 EXCEPT !.role = "fault", !.status = "fault"]
        ELSE IF r = "header" THEN HeaderBranch([s3 EXCEPT !.role = r], ln)
        ELSE IF r = "trailing" THEN TrailingBranch([s3 EXCEPT !.role = r], ln)
        ELSE DataBranch([s3 EXCEPT !.role = r], ln)

\* AfterLoop without the sample-count check of lines 173-174
AfterLoopNoCountCheck(s) ==
    IF Len(s.headers) = 0 THEN [Throw(s, "no valid record found") EXCEPT !.err_line = 0]
    ELSE [s EXCEPT !.status = "ok"]

\* AfterLoop without the headers.size() == 0 check of line 170
AfterLoopNoEmptyCheck(s) ==
    IF Len(s.power_data) # Len(s.headers) * s.first_header.steps
    THEN [Throw(s, "power_data count is not correct") EXCEPT !.err_line = 0]
    ELSE [s EXCEPT !.status = "ok"]

\* after the loop, lines 170-174
AfterLoop(s) ==
    IF Len(s.headers) = 0 THEN [Throw(s, "no valid record found") EXCEPT !.err_line = 0]
    ELSE IF Len(s.power_data) # Len(s.headers) * s.first_header.steps
    THEN [Throw(s, "power_data count is not correct") EXCEPT !.err_line = 0]
    ELSE [s EXCEPT !.status = "ok"]

\* parse_logfile on a whole stream, from context s and line i on
RECURSIVE RunFrom(_, _, _, _)
RunFrom(s, lines, i, mz) ==
    IF s.status # "running" THEN s
    ELSE IF i > Len(lines) THEN AfterLoop(s)
    ELSE RunFrom(LoopBody(s, lines[i], mz), lines, i + 1, mz)

parse_logfile(lines, mz) == RunFrom(InitCtx, lines, 1, mz)

Install(s) ==
    /\ real_line_count' = s.real_line_count
    /\ in_record_line_count' = s.in_record_line_count
    /\ lines_per_record' = s.lines_per_record
    /\ first_header' = s.first_header
    /\ headers' = s.headers
    /\ power_data' = s.power_data
    /\ role' = s.role
    /\ status' = s.status
    /\ err' = s.err
    /\ err_line' = s.err_line
    /\ mod_zero' = s.mod_zero

ModZeroOutcomes == {"trap", "dividend"}

NumComments(lines) == Cardinality({i \in 1..Len(lines) : IsComment(lines[i])})

\* getline can deliver line ln: the stream holds one more line
Reads(ln) ==
    /\ status = "running"
    /\ Len(input) < MaxLines
    /\ IsComment(ln) => NumComments(input) < MaxComments

\* a comment line is read and skipped
CommentLine ==
    \E ln \in LineSet, mz \in ModZeroOutcomes :
        /\ Reads(ln)
        /\ LoopBody(Ctx, ln, mz).role = "comment"
        /\ Install(LoopBody(Ctx, ln, mz))
        /\ input' = Append(input, ln)
        /\ UNCHANGED <<twiceVars, saveVars, capVars, renderVars, checkVars, mainVars>>

\* a line is read in header position
HeaderPosLine ==
    \E ln \in LineSet, mz \in ModZeroOutcomes :
        /\ Reads(ln)
        /\ LoopBody(Ctx, ln, mz).role = "header"
        /\ Install(LoopBody(Ctx, ln, mz))
        /\ input' = Append(input, ln)
        /\ UNCHANGED <<twiceVars, saveVars, capVars, renderVars, checkVars, mainVars>>

\* a line is read in the trailing-newline position
TrailingPosLine ==
    \E ln \in LineSet, mz \in ModZeroOutcomes :
        /\ Reads(ln)
        /\ LoopBody(Ctx, ln, mz).role = "trailing"
        /\ Install(LoopBody(Ctx, ln, mz))
        /\ input' = Append(input, ln)
        /\ UNCHANGED <<twiceVars, saveVars, capVars, renderVars, checkVars, mainVars>>

\* a line is read in data position
DataPosLine ==
    \E ln \in LineSet, mz \in ModZeroOutcomes :
        /\ Reads(ln)
        /\ LoopBody(Ctx, ln, mz).role = "data"
        /\ Install(LoopBody(Ctx, ln, mz))
        /\ input' = Append(input, ln)
        /\ UNCHANGED <<twiceVars, saveVars, capVars, renderVars, checkVars, mainVars>>

\* a line is read with lines_per_record = 0 and the modulus traps
ModuloByZeroTrap ==
    \E ln \in LineSet, mz \in ModZeroOutcomes :
        /\ Reads(ln)
        /\ LoopBody(Ctx, ln, mz).role = "fault"
        /\ Install(LoopBody(Ctx, ln, mz))
        /\ input' = Append(input, ln)
        /\ UNCHANGED <<twiceVars, saveVars, capVars, renderVars, checkVars, mainVars>>

\* getline fails at the end of the stream: the checks after the loop
EndOfStream ==
    /\ status = "running"
    /\ Install(AfterLoop(Ctx))
    /\ UNCHANGED <<twiceVars, saveVars, capVars, renderVars, input, checkVars, mainVars>>

Init ==
    /\ input = << >>
    /\ real_line_count = InitCtx.real_line_count
    /\ in_record_line_count = InitCtx.in_record_line_count
    /\ lines_per_record = InitCtx.lines_per_record
    /\ first_header = InitCtx.first_header
    /\ headers = InitCtx.headers
    /\ power_data = InitCtx.power_data
    /\ role = InitCtx.role
    /\ status = InitCtx.status
    /\ err = InitCtx.err
    /\ err_line = InitCtx.err_line
    /\ mod_zero = InitCtx.mod_zero
    /\ CheckIdle
    /\ MainIdle
    /\ RenderIdle
    /\ CapIdle
    /\ TwiceIdle
    /\ SaveIdle

Next ==
    \/ CommentLine
    \/ HeaderPosLine
    \/ TrailingPosLine
    \/ DataPosLine
    \/ ModuloByZeroTrap
    \/ EndOfStream

Spec == Init /\ [][Next]_vars

\* ------------------------------------------------------------ the claims
\* what the formulas below read off the input stream itself
NonComment(lines) == SelectSeq(lines, LAMBDA l : ~IsComment(l))
LastLine == input[Len(input)]
Finished == status # "running"
IsHeaderText(ln) == FirstChar(ln) = "$"

\* the records of a stream, delimited by its "$" lines: the data lines of the
\* record whose header is non-comment line i are the non-empty lines after i
\* up to the next "$" line or the end of the stream
HeaderIndexes(nc) == {i \in 1..Len(nc) : IsHeaderText(nc[i])}
NextHeader(nc, i) ==
    IF \E j \in HeaderIndexes(nc) : j > i
    THEN CHOOSE j \in HeaderIndexes(nc) : j > i /\ \A k \in HeaderIndexes(nc) : k > i => j <= k
    ELSE Len(nc) + 1
DataLineCount(nc, i) ==
    Cardinality({j \in (i + 1)..(NextHeader(nc, i) - 1) : Len(nc[j]) # 0})
EmptyLineCount(nc, i) ==
    Cardinality({j \in (i + 1)..(NextHeader(nc, i) - 1) : Len(nc[j]) = 0})

\* C1: whenever parse_logfile returns normally, the number of stored power
\* samples is the number of stored headers times the first header's steps.
C1_SampleCount ==
    status = "ok" => Len(power_data) = Len(headers) * headers[1].steps

C1_Witness == status = "ok" /\ Len(headers) = 2 /\ Len(power_data) = 2

\* C2: a header after the first one whose start_freq, stop_freq, steps or rbw
\* differs from the first header's makes the parse fail with a field-mismatch
\* error at that line; on every normal return all stored headers carry the
\* first header's start_freq, stop_freq, steps and rbw.
MismatchErrors ==
    {"start_freq mismatch", "stop_freq mismatch", "steps count mismatch", "rbw mismatch"}
SameConfig(a, b) ==
    /\ a.start_freq = b.start_freq /\ a.stop_freq = b.stop_freq
    /\ a.steps = b.steps /\ a.rbw = b.rbw
C2_Homogeneous ==
    /\ (/\ role = "header"
        /\ Len(NonComment(input)) >= 2
        /\ Len(headers) >= 1
        /\ parse_header(LastLine).ret
        /\ ~SameConfig(ScannedHeader(LastLine), headers[1]))
       => (status = "error" /\ err \in MismatchErrors /\ err_line = Len(input))
    /\ status = "ok" => \A i \in 1..Len(headers) : SameConfig(headers[i], headers[1])

C2_Witness ==
    /\ status = "error" /\ err = "rbw mismatch"
    /\ Len(headers) = 1 /\ Len(power_data) = 1 /\ NumComments(input) = 1

\* C3: desynchronisation is always detected: no stream is accepted in which
\* some record has a number of data lines other than the steps value the
\* first header declares.
C3_Desync ==
    status = "ok" =>
        LET nc == NonComment(input)
        IN  /\ Len(nc) >= 1 /\ IsHeaderText(nc[1]) /\ sscanf_ret(nc[1]) = 6
            /\ \A i \in HeaderIndexes(nc) :
                  DataLineCount(nc, i) = ScannedHeader(nc[1]).steps

\* a record one data line short, rejected
C3_Witness ==
    /\ status = "error"
    /\ LET nc == NonComment(input)
       IN  /\ Len(nc) = 7 /\ IsHeaderText(nc[1]) /\ sscanf_ret(nc[1]) = 6
           /\ ScannedHeader(nc[1]).steps = 2
           /\ IsHeaderText(nc[5])
           /\ DataLineCount(nc, 5) = 1

\* C4: a line in header position is rejected with an invalid-header error when
\* it does not start with "$", does not yield six fields, or has
\* start_freq >= stop_freq, steps = 0, rbw <= 0 or rbw > 1000; and every header
\* stored by a successful parse has start_freq < stop_freq, steps >= 1 and
\* 0 < rbw <= 1000.
BadHeaderLine(ln) ==
    \/ FirstChar(ln) # "$"
    \/ sscanf_ret(ln) # 6
    \/ LET h == ScannedHeader(ln)
       IN  \/ FGe(h.start_freq, h.stop_freq)
           \/ h.steps = 0
           \/ FLe(h.rbw, Num(0))
           \/ FGt(h.rbw, Num(1000))
SaneHeader(h) ==
    /\ FLt(h.start_freq, h.stop_freq)
    /\ h.steps # 0
    /\ FLt(Num(0), h.rbw) /\ FLe(h.rbw, Num(1000))
C4_HeaderSanity ==
    /\ (role = "header" /\ BadHeaderLine(LastLine))
       => (status = "error" /\ err = "invalid header")
    /\ status = "ok" => \A i \in 1..Len(headers) : SaneHeader(headers[i])

\* C5: a line in data position that is not a number, or whose value is NaN or
\* infinite, makes the parse fail at that line, and its value is not stored.
BadDataLine(ln) == Len(ln) = 0 \/ ln[1].k # "num"
C5_BadData ==
    /\ (role = "data" /\ BadDataLine(LastLine))
       => /\ status = "error" /\ err_line = Len(input)
          /\ err \in {"failed to parse double", "invalid power value"}
    /\ \A i \in 1..Len(power_data) : power_data[i].cls = "num"

C5_WitnessNaN == status = "error" /\ role = "data" /\ LastLine = <<NANT>> /\ Len(power_data) = 1

\* C6: in every accepted stream each record, the last one included, is a
\* header line, then exactly steps data lines, then exactly one empty line.
C6_RecordShape ==
    status = "ok" =>
        LET nc == NonComment(input)
        IN  \A i \in HeaderIndexes(nc) :
              /\ DataLineCount(nc, i) = headers[1].steps
              /\ EmptyLineCount(nc, i) = 1
              /\ Len(nc[NextHeader(nc, i) - 1]) = 0

\* C7: a non-empty non-comment line at the trailing position of a record
\* (position steps + 2 counted from the record's header) makes the parse fail
\* at that line.
C7_TrailingBlank ==
    LET nc == NonComment(input)
    IN  (/\ Len(nc) >= 1
         /\ parse_header(nc[1]).ret
         /\ ScannedHeader(nc[1]).steps >= 1
         /\ Len(nc) % (ScannedHeader(nc[1]).steps + 2) = 0
         /\ Len(nc[Len(nc)]) # 0)
        => (status = "error" /\ err = "newline expected" /\ err_line = Len(input))

C7_Witness ==
    /\ status = "error" /\ err = "newline expected"
    /\ Len(headers) = 2 /\ LastLine = <<N(-50)>>

\* C8: a stream with no record, that is an empty stream or one made of comment
\* lines only, fails with "no valid record found".
C8_NoRecord ==
    (Finished /\ \A i \in 1..Len(input) : IsComment(input[i]))
        => (status = "error" /\ err = "no valid record found")

C8_Witness == status = "error" /\ err = "no valid record found" /\ Len(input) = 2

\* C9: comment lines do not count toward structural position: the outcome of
\* a parse (accept or reject and, on acceptance, the headers and samples) is
\* that of parsing the stream with its comment lines removed.
Outcome(s) ==
    [accepted |-> s.status = "ok",
     headers |-> IF s.status = "ok" THEN s.headers ELSE << >>,
     power_data |-> IF s.status = "ok" THEN s.power_data ELSE << >>]
C9_CommentsIgnored ==
    Finished =>
        \A mz \in IF mod_zero = "unevaluated" THEN ModZeroOutcomes ELSE {mod_zero} :
            Outcome(Ctx) = Outcome(parse_logfile(NonComment(input), mz))

\* accepted, with a comment before the header and one inside the data block
C9_Witness ==
    /\ status = "ok" /\ Len(input) = 6 /\ headers[1].steps = 2
    /\ IsComment(input[1]) /\ IsComment(input[4])

\* C10: after a successful parse the samples are stored record-major,
\* bin-minor: samples[r * steps + b] is the value of data line b of record r
\* of the input, and headers[r] is that record's header.
C10_RecordMajor ==
    status = "ok" =>
        LET nc == NonComment(input)
            st == headers[1].steps
            lpr == st + 2
        IN  /\ st >= 1
            /\ Len(nc) >= Len(headers) * lpr - 1
            /\ Len(power_data) >= Len(headers) * st
            /\ \A r \in 0..(Len(headers) - 1) :
                  /\ sscanf_ret(nc[r * lpr + 1]) = 6
                  /\ headers[r + 1] = ScannedHeader(nc[r * lpr + 1])
                  /\ \A b \in 0..(st - 1) :
                        /\ ~stof_throws(nc[r * lpr + 1 + b + 1])
                        /\ power_data[r * st + b + 1] = stof(nc[r * lpr + 1 + b + 1])

C10_Witness ==
    /\ status = "ok" /\ Len(headers) = 2 /\ headers[1].steps = 2
    /\ power_data[1] # power_data[2] /\ power_data[2] # power_data[3]

\* C11: a failed parse leaves no partial results: when parse_logfile throws,
\* the caller's headers and power_data hold no element added by the call.
C11_NoPartialResults ==
    status = "error" => (headers = << >> /\ power_data = << >>)

\* the lines read by the loop are consumed without a throw or a fault
RECURSIVE ReadsCleanly(_, _, _, _)
ReadsCleanly(s, lines, k, mz) ==
    IF s.status # "running" THEN FALSE
    ELSE IF k > Len(lines) THEN TRUE
    ELSE ReadsCleanly(LoopBody(s, lines[k], mz), lines, k + 1, mz)

LineErrors ==
    MismatchErrors \cup {"invalid header", "newline expected",
                         "failed to parse double", "invalid power value"}

Fmt(secs) == (secs \div 3600) * 10000 + ((secs \div 60) % 60) * 100 + (secs % 60)

\* date::parse("%4Y%2m%2dT%2H%2M%2S"): fails on a text that is not a
\* timestamp, or whose hour, minute or second is out of range
ParseFails(t) ==
    \/ t.k # "time"
    \/ t.v < 0
    \/ t.v \div 10000 > 23
    \/ (t.v \div 100) % 100 > 59
    \/ t.v % 100 > 59

\* time_from_str(str): throws when the parse fails, otherwise the time point,
\* here in seconds since the midnight of the date
time_from_str(t) ==
    [throws |-> ParseFails(t),
     time |-> IF ParseFails(t) THEN 0
              ELSE (t.v \div 10000) * 3600 + ((t.v \div 100) % 100) * 60 + (t.v % 100)]

\* ------------------------------------------------- arithmetic of the checker
\* time_diff.count() is a signed 64-bit long and record_count - 1 a size_t
\* (LP64): "/" and "%" convert the long to unsigned long, so a negative x
\* stands for 2^64 + x. The 64-bit dividend is held as four 16-bit limbs.
Limb == 2^16
Limbs(x) ==
    IF x >= 0 THEN <<0, 0, x \div Limb, x % Limb>>
    ELSE <<Limb - 1, Limb - 1,
           Limb - 1 - ((-x - 1) \div Limb), Limb - 1 - ((-x - 1) % Limb)>>

\* schoolbook division of the limbs by d, 0 < d < 2^15: [q, r] after limb k
RECURSIVE LongDiv(_, _, _)
LongDiv(l, d, k) ==
    IF k = 0 THEN [q |-> << >>, r |-> 0]
    ELSE LET p == LongDiv(l, d, k - 1)
             n == p.r * Limb + l[k]
         IN  [q |-> Append(p.q, n \div d), r |-> n % d]

\* the low 32 bits of a quotient, read as an int
ToInt(q) ==
    IF q[3] >= Limb \div 2 THEN (q[3] - Limb) * Limb + q[4] ELSE q[3] * Limb + q[4]

\* int(x / d) and whether x % d != 0, for d > 0
UDiv(x, d) == ToInt(LongDiv(Limbs(x), d, 4).q)
URemNonZero(x, d) == LongDiv(Limbs(x), d, 4).r # 0

\* 60 % interval on int: the remainder takes the sign of the dividend
CRem(a, b) == IF b > 0 THEN a % b ELSE a % (-b)

\* ------------------------------------------ check_logfile_time_consistency
record_count == Len(headers)

CheckCtx ==
    [pc |-> pc_check, headers |-> headers, time_diff |-> time_diff,
     interval |-> interval, last_interval |-> last_interval, pair_i |-> pair_i,
     problems |-> problems, inconsistency_count |-> inconsistency_count,
     ret |-> check_ret, mod_zero |-> mod_zero]

\* the state at the call, the caller passing a fresh logproblem_t
EnterCheck(hs, mz) ==
    [pc |-> "times", headers |-> hs, time_diff |-> 0, interval |-> 0,
     last_interval |-> 0, pair_i |-> 0, problems |-> NoProblems,
     inconsistency_count |-> 0, ret |-> FALSE, mod_zero |-> mz]

\* a StringException leaves the function
CheckThrow(c) == [c EXCEPT !.pc = "error"]
\* the division instruction traps
CheckFault(c) == [c EXCEPT !.pc = "fault"]

\* a division or modulus by zero is evaluated: undefined, and the build
\* settles what it does (it traps, or it yields quotient 0 and the dividend
\* as remainder)
ByZero(c, mz) ==
    IF c.mod_zero = "unevaluated" THEN [c EXCEPT !.mod_zero = mz] ELSE c

\* lines 180-184: the first and last sweep times and their difference
FirstLastTimes(c) ==
    LET first_sweep_time == time_from_str(c.headers[1].start_time)
        last_sweep_time == time_from_str(c.headers[Len(c.headers)].start_time)
    IN  IF first_sweep_time.throws \/ last_sweep_time.throws THEN CheckThrow(c)
        ELSE [c EXCEPT !.time_diff = last_sweep_time.time - first_sweep_time.time,
                       !.pc = "interval"]

\* line 185: interval = time_diff.count() / (record_count - 1)
NominalInterval(c, mz) ==
    LET d == Len(c.headers) - 1
        z == ByZero(c, mz)
    IN  IF d = 0
        THEN IF z.mod_zero = "trap" THEN CheckFault(z)
             ELSE [z EXCEPT !.interval = 0, !.pc = "range"]
        ELSE [c EXCEPT !.interval = UDiv(c.time_diff, d), !.pc = "range"]

\* lines 189-195: time_diff.count() % (record_count - 1) != 0
RangeFlag(c) ==
    [c EXCEPT !.problems.time_range_not_divisible_by_record_count = TRUE,
              !.inconsistency_count = @ + 1, !.pc = "factor"]
RangeDivisible(c, mz) ==
    LET d == Len(c.headers) - 1
        z == ByZero(c, mz)
    IN  IF d = 0
        THEN IF z.mod_zero = "trap" THEN CheckFault(z)
             ELSE IF z.time_diff # 0 THEN RangeFlag(z) ELSE [z EXCEPT !.pc = "factor"]
        ELSE IF URemNonZero(c.time_diff, d) THEN RangeFlag(c)
        ELSE [c EXCEPT !.pc = "factor"]

\* lines 198-206: 60 % interval != 0, then last_interval = interval
FactorFlag(c) ==
    [c EXCEPT !.problems.interval_not_divisible_by_60 = TRUE,
              !.inconsistency_count = @ + 1,
              !.last_interval = c.interval, !.pair_i = 0, !.pc = "loop"]
FactorOf60(c, mz) ==
    LET z == ByZero(c, mz)
    IN  IF c.interval = 0
        THEN IF z.mod_zero = "trap" THEN CheckFault(z) ELSE FactorFlag(z)
        ELSE IF CRem(60, c.interval) # 0 THEN FactorFlag(c)
        ELSE [c EXCEPT !.last_interval = c.interval, !.pair_i = 0, !.pc = "loop"]

\* the overlap test of line 216 without its ts1 < ts2 conjunct
OrderedNonStrict(ts1, te1, ts2, te2) ==
    ts1 <= te1 /\ te1 <= ts2 /\ ts2 <= te2

\* line 216: ts1 <= te1 && te1 <= ts2 && ts2 <= te2 && ts1 < ts2
Ordered(ts1, te1, ts2, te2) ==
    ts1 <= te1 /\ te1 <= ts2 /\ ts2 <= te2 /\ ts1 < ts2

Bump(c, cond) == IF cond THEN [c EXCEPT !.inconsistency_count = @ + 1] ELSE c
SetOverlap(c, cond) ==
    IF cond THEN Bump([c EXCEPT !.problems.time_overlap = TRUE], TRUE) ELSE c

\* lines 207-258: one iteration of the loop, for the pair (i, i + 1)
PairBody(c) ==
    LET i == c.pair_i
        ts1 == time_from_str(c.headers[i + 1].start_time)
        te1 == time_from_str(c.headers[i + 1].end_time)
        ts2 == time_from_str(c.headers[i + 2].start_time)
        te2 == time_from_str(c.headers[i + 2].end_time)
        diff == ts2.time - ts1.time
        c1 == SetOverlap(c, ~Ordered(ts1.time, te1.time, ts2.time, te2.time))
        c2 == SetOverlap(c1, te1.time < ts1.time)
        c3 == SetOverlap(c2, i = Len(c.headers) - 2 /\ te2.time < ts2.time)
        c4 == Bump([c3 EXCEPT !.problems.variant_interval =
                                  @ \/ diff # c.last_interval],
                   diff # c.last_interval)
        c5 == Bump([c4 EXCEPT !.problems.negative_interval = @ \/ diff < 0],
                   diff < 0)
    IN  IF ts1.throws \/ te1.throws \/ ts2.throws \/ te2.throws THEN CheckThrow(c)
        ELSE [c5 EXCEPT !.last_interval = diff, !.pair_i = i + 1]

\* lines 260-267: return inconsistency_count > 0
CheckReturn(c) == [c EXCEPT !.ret = c.inconsistency_count > 0, !.pc = "done"]

CheckStep(c, mz) ==
    CASE c.pc = "times" -> FirstLastTimes(c)
      [] c.pc = "interval" -> NominalInterval(c, mz)
      [] c.pc = "range" -> RangeDivisible(c, mz)
      [] c.pc = "factor" -> FactorOf60(c, mz)
      [] c.pc = "loop" -> IF c.pair_i < Len(c.headers) - 1 THEN PairBody(c)
                          ELSE CheckReturn(c)
      [] OTHER -> c

RECURSIVE RunCheck(_, _)
RunCheck(c, mz) ==
    IF c.pc \in {"done", "error", "fault"} THEN c ELSE RunCheck(CheckStep(c, mz), mz)

\* check_logfile_time_consistency(headers, problems) as the caller sees it,
\* in a process whose earlier code left mod_zero at evaluated
check_logfile_time_consistency(hs, evaluated, mz) ==
    RunCheck(EnterCheck(hs, evaluated), mz)

InstallCheck(c) ==
    /\ pc_check' = c.pc
    /\ mod_zero' = c.mod_zero
    /\ time_diff' = c.time_diff
    /\ interval' = c.interval
    /\ last_interval' = c.last_interval
    /\ pair_i' = c.pair_i
    /\ problems' = c.problems
    /\ inconsistency_count' = c.inconsistency_count
    /\ check_ret' = c.ret

parserVars ==
    <<input, real_line_count, in_record_line_count, lines_per_record,
      first_header, headers, power_data, role, status, err, err_line>>

SweepTimes ==
    /\ pc_check = "times"
    /\ InstallCheck(FirstLastTimes(CheckCtx))
    /\ UNCHANGED <<twiceVars, saveVars, capVars, renderVars, parserVars, mainVars>>

Divide ==
    /\ pc_check = "interval"
    /\ \E mz \in ModZeroOutcomes : InstallCheck(NominalInterval(CheckCtx, mz))
    /\ UNCHANGED <<twiceVars, saveVars, capVars, renderVars, parserVars, mainVars>>

CheckRange ==
    /\ pc_check = "range"
    /\ \E mz \in ModZeroOutcomes : InstallCheck(RangeDivisible(CheckCtx, mz))
    /\ UNCHANGED <<twiceVars, saveVars, capVars, renderVars, parserVars, mainVars>>

CheckFactor ==
    /\ pc_check = "factor"
    /\ \E mz \in ModZeroOutcomes : InstallCheck(FactorOf60(CheckCtx, mz))
    /\ UNCHANGED <<twiceVars, saveVars, capVars, renderVars, parserVars, mainVars>>

CheckPair ==
    /\ pc_check = "loop"
    /\ pair_i < record_count - 1
    /\ InstallCheck(PairBody(CheckCtx))
    /\ UNCHANGED <<twiceVars, saveVars, capVars, renderVars, parserVars, mainVars>>

Return ==
    /\ pc_check = "loop"
    /\ ~(pair_i < record_count - 1)
    /\ InstallCheck(CheckReturn(CheckCtx))
    /\ UNCHANGED <<twiceVars, saveVars, capVars, renderVars, parserVars, mainVars>>

\* ------------------------------------------------- the headers it is given
MaxRecords == 4

\* sweeps start at one o'clock plus one of these offsets in seconds
BaseSecs == 60 * 60
StartSecs == {0, 60, 120, 180}
\* the last sweep may also start off the minute
LastSecs == StartSecs \cup {7}
Clock(secs) == TimeTok(Fmt(BaseSecs + secs))

\* what may be wrong with one record of the log: its end_time before its
\* start_time, its end_time after the next sweeps, or a time that is not a
\* timestamp
Anomalies == {"end_early", "end_late", "bad_start", "bad_end"}
StartText(secs, a) == IF a = "bad_start" THEN JUNK ELSE Clock(secs)
EndText(secs, a) ==
    CASE a = "end_early" -> Clock(secs - 5)
      [] a = "end_late" -> Clock(secs + 200)
      [] a = "bad_end" -> JUNK
      [] OTHER -> Clock(secs)

\* the header parse_header stores for a sweep
SweepHeader(secs, a) ==
    ScannedHeader(HeaderLine(N(1), N(3), N(1), N(1), StartText(secs, a), EndText(secs, a)))

\* logs of n records with at most one anomalous record
HeaderSeqs(n) ==
    {[k \in 1..n |-> SweepHeader(st[k], IF k = j THEN a ELSE "none")] :
        st \in {f \in [1..n -> LastSecs] : \A k \in 1..(n - 1) : f[k] \in StartSecs},
        j \in 0..n, a \in Anomalies}

InitCheck ==
    /\ \E n \in 1..MaxRecords : headers \in HeaderSeqs(n)
    /\ \A k \in 1..Len(headers) : parse_header(
           HeaderLine(N(1), N(3), N(1), N(1), headers[k].start_time, headers[k].end_time)).ret
    /\ mod_zero = "unevaluated"
    /\ input = << >> /\ real_line_count = 0 /\ in_record_line_count = 0
    /\ lines_per_record = 3 /\ first_header = headers[1]
    /\ power_data = << >> /\ role = "none" /\ status = "ok"
    /\ err = "none" /\ err_line = 0
    /\ pc_check = "times" /\ time_diff = 0 /\ interval = 0 /\ last_interval = 0
    /\ pair_i = 0 /\ problems = NoProblems /\ inconsistency_count = 0
    /\ check_ret = FALSE
    /\ MainIdle
    /\ RenderIdle
    /\ CapIdle
    /\ TwiceIdle
    /\ SaveIdle

NextCheck ==
    \/ SweepTimes
    \/ Divide
    \/ CheckRange
    \/ CheckFactor
    \/ CheckPair
    \/ Return

SpecCheck == InitCheck /\ [][NextCheck]_vars

\* ------------------------------------------------------------ log2png main
\* what leaves main when a callee ends with the given status: a
\* StringException reaches the catch clause, which returns EXIT_FAILURE; a
\* trap ends the process with a signal; otherwise main goes on to next
MainGoesOnAnyway(st, next) == [pc |-> next, exit_code |-> "none"]

MainAfter(st, next) ==
    CASE st = "error" -> [pc |-> "exit", exit_code |-> "EXIT_FAILURE"]
      [] st = "fault" -> [pc |-> "exit", exit_code |-> "SIGNAL"]
      [] OTHER -> [pc |-> next, exit_code |-> "none"]

\* the steps of main after the text processing part, in program order
ImageSteps == {"image", "banner", "spectrogram", "footer", "gridlines", "write"}

\* parse_args: -h or a bad -g value returns false, a missing -f throws
ParseArgs ==
    /\ pc_main = "args"
    /\ \E outcome \in {"ok", "usage", "no_file"}, g \in BOOLEAN :
          /\ do_gridlines' = g
          /\ pc_main' = IF outcome = "ok" THEN "open" ELSE "exit"
          /\ exit_code' = IF outcome = "ok" THEN "none" ELSE "EXIT_FAILURE"
    /\ steps_done' = steps_done \cup {"args"}
    /\ UNCHANGED <<twiceVars, saveVars, capVars, renderVars, parserVars, mod_zero, checkVars, logfile, file_opens>>

\* logfile_name == "-" reads cin; otherwise the file is opened, and a file
\* that does not open is an error
OpenLog ==
    /\ pc_main = "open"
    /\ \E opens \in BOOLEAN :
          /\ file_opens' = opens
          /\ pc_main' = MainAfter(IF opens THEN "ok" ELSE "error", "parse").pc
          /\ exit_code' = MainAfter(IF opens THEN "ok" ELSE "error", "parse").exit_code
    /\ steps_done' = steps_done \cup {"open"}
    /\ UNCHANGED <<twiceVars, saveVars, capVars, renderVars, parserVars, mod_zero, checkVars, logfile, do_gridlines>>

ParseLog ==
    /\ pc_main = "parse"
    /\ \E mz \in ModZeroOutcomes :
          /\ Install(parse_logfile(logfile, mz))
          /\ input' = SubSeq(logfile, 1, parse_logfile(logfile, mz).real_line_count)
          /\ pc_main' = MainAfter(parse_logfile(logfile, mz).status, "check").pc
          /\ exit_code' = MainAfter(parse_logfile(logfile, mz).status, "check").exit_code
    /\ steps_done' = steps_done \cup {"parse"}
    /\ UNCHANGED <<twiceVars, saveVars, capVars, renderVars, checkVars, logfile, file_opens, do_gridlines>>

CheckStatus(c) == IF c.pc = "done" THEN "ok" ELSE c.pc

CheckLog ==
    /\ pc_main = "check"
    /\ \E mz \in ModZeroOutcomes :
          /\ InstallCheck(check_logfile_time_consistency(headers, mod_zero, mz))
          /\ pc_main' = MainAfter(CheckStatus(
                 check_logfile_time_consistency(headers, mod_zero, mz)), "image").pc
          /\ exit_code' = MainAfter(CheckStatus(
                 check_logfile_time_consistency(headers, mod_zero, mz)), "image").exit_code
    /\ steps_done' = steps_done \cup {"check"}
    /\ UNCHANGED <<twiceVars, saveVars, capVars, renderVars, parserVars, logfile, file_opens, do_gridlines>>

\* Image image(Geometry(width, height), Color("black")) and its settings
AllocImage ==
    /\ pc_main = "image"
    /\ pc_main' = "banner"
    /\ steps_done' = steps_done \cup {"image"}
    /\ UNCHANGED <<twiceVars, saveVars, capVars, renderVars, parserVars, mod_zero, checkVars, exit_code, logfile, file_opens,
                   do_gridlines>>

DrawBanner ==
    /\ pc_main = "banner"
    /\ pc_main' = "spectrogram"
    /\ steps_done' = steps_done \cup {"banner"}
    /\ UNCHANGED <<twiceVars, saveVars, capVars, renderVars, parserVars, mod_zero, checkVars, exit_code, logfile, file_opens,
                   do_gridlines>>

DrawSpectrogram ==
    /\ pc_main = "spectrogram"
    /\ pc_main' = "footer"
    /\ steps_done' = steps_done \cup {"spectrogram"}
    /\ UNCHANGED <<twiceVars, saveVars, capVars, renderVars, parserVars, mod_zero, checkVars, exit_code, logfile, file_opens,
                   do_gridlines>>

DrawFooter ==
    /\ pc_main = "footer"
    /\ pc_main' = IF do_gridlines THEN "gridlines" ELSE "write"
    /\ steps_done' = steps_done \cup {"footer"}
    /\ UNCHANGED <<twiceVars, saveVars, capVars, renderVars, parserVars, mod_zero, checkVars, exit_code, logfile, file_opens,
                   do_gridlines>>

DrawGridlines ==
    /\ pc_main = "gridlines"
    /\ pc_main' = "write"
    /\ steps_done' = steps_done \cup {"gridlines"}
    /\ UNCHANGED <<twiceVars, saveVars, capVars, renderVars, parserVars, mod_zero, checkVars, exit_code, logfile, file_opens,
                   do_gridlines>>

\* image.write(output_name), then return EXIT_SUCCESS
WriteImage ==
    /\ pc_main = "write"
    /\ pc_main' = "exit"
    /\ exit_code' = "EXIT_SUCCESS"
    /\ steps_done' = steps_done \cup {"write"}
    /\ UNCHANGED <<twiceVars, saveVars, capVars, renderVars, parserVars, mod_zero, checkVars, logfile, file_opens, do_gridlines>>

\* ------------------------------------------------------ the logs it is given
SweepLine(ts, te) == HeaderLine(N(1), N(3), N(1), N(1), ts, te)
\* a record of one sample, started at offset secs and ended as a tells
Record(secs, a) == <<SweepLine(StartText(secs, a), EndText(secs, a)), <<N(-50)>>, EmptyLine>>

Logs ==
    {<< >>,
     <<<<HASH, JUNK>>>>,
     Record(0, "none"),
     Record(0, "bad_end"),
     Record(0, "bad_start"),
     Record(0, "none") \o Record(60, "none"),
     <<<<HASH, JUNK>>>> \o Record(0, "none") \o Record(60, "none"),
     Record(0, "none") \o Record(0, "none"),
     Record(60, "none") \o Record(0, "none"),
     Record(0, "none") \o Record(60, "bad_end"),
     Record(0, "end_early") \o Record(60, "none") \o Record(120, "none"),
     Record(0, "none") \o Record(60, "none") \o Record(60, "none") \o Record(180, "none"),
     <<SweepLine(Clock(0), Clock(0)), <<JUNK>>, EmptyLine>>,
     <<SweepLine(Clock(0), Clock(0)), <<NANT>>, EmptyLine>>,
     <<SweepLine(Clock(0), Clock(0)), <<N(-50)>>, <<N(-50)>>>>,
     Record(0, "none") \o <<HeaderLine(N(1), N(3), N(1), N(1000), Clock(60), Clock(60)),
                            <<N(-50)>>, EmptyLine>>,
     Record(0, "none") \o <<<<DOLLAR>>>>,
     <<HeaderLine(N(1), N(3), N(-2), N(1), Clock(0), Clock(0)), <<N(-50)>>>>}

InitMain ==
    /\ logfile \in Logs
    /\ input = << >>
    /\ real_line_count = InitCtx.real_line_count
    /\ in_record_line_count = InitCtx.in_record_line_count
    /\ lines_per_record = InitCtx.lines_per_record
    /\ first_header = InitCtx.first_header
    /\ headers = InitCtx.headers
    /\ power_data = InitCtx.power_data
    /\ role = InitCtx.role
    /\ status = InitCtx.status
    /\ err = InitCtx.err
    /\ err_line = InitCtx.err_line
    /\ mod_zero = InitCtx.mod_zero
    /\ CheckIdle
    /\ pc_main = "args" /\ steps_done = {} /\ exit_code = "none"
    /\ file_opens = TRUE /\ do_gridlines = TRUE
    /\ RenderIdle
    /\ CapIdle
    /\ TwiceIdle
    /\ SaveIdle

NextMain ==
    \/ ParseArgs
    \/ OpenLog
    \/ ParseLog
    \/ CheckLog
    \/ AllocImage
    \/ DrawBanner
    \/ DrawSpectrogram
    \/ DrawFooter
    \/ DrawGridlines
    \/ WriteImage

SpecMain == InitMain /\ [][NextMain]_vars

\* --------------------------------------------------- claims on the checker
StartOf(k) == time_from_str(headers[k].start_time).time
EndOf(k) == time_from_str(headers[k].end_time).time
WellFormedTimes ==
    \A k \in 1..record_count :
        ~ParseFails(headers[k].start_time) /\ ~ParseFails(headers[k].end_time)
Checked == pc_check \in {"done", "error", "fault"}

\* the signed span of the log in seconds, and a quotient truncated toward zero
Span == StartOf(record_count) - StartOf(1)
TruncDiv(x, d) == IF x >= 0 THEN x \div d ELSE -((-x) \div d)
Nominal == TruncDiv(Span, record_count - 1)
PairOrdered(k) == Ordered(StartOf(k), EndOf(k), StartOf(k + 1), EndOf(k + 1))
PairDiff(k) == StartOf(k + 1) - StartOf(k)

\* C14: check_logfile_time_consistency is never fatal: whatever headers the
\* parser returns, it neither throws nor faults.
C14_NeverFatal == pc_check \notin {"error", "fault"}

\* C15: for a log of exactly one record the checker evaluates no division or
\* modulus by record_count - 1 = 0 and raises no division error.
C15_SingleRecord ==
    (record_count = 1 /\ pc_check # "idle") =>
        (mod_zero = "unevaluated" /\ pc_check # "fault")

\* four records starting at T, T+60, T+60, T+180, each ending no earlier than
\* its start and no later than the next start
C16_Log ==
    /\ record_count = 4
    /\ WellFormedTimes
    /\ StartOf(2) = StartOf(1) + 60
    /\ StartOf(3) = StartOf(1) + 60
    /\ StartOf(4) = StartOf(1) + 180
    /\ \A k \in 1..3 : StartOf(k) <= EndOf(k) /\ EndOf(k) <= StartOf(k + 1)
    /\ StartOf(4) <= EndOf(4)

\* C16 as stated: for that log the checker sets variant_interval and leaves
\* time_overlap unset.
C16_NoOverlap ==
    (C16_Log /\ pc_check = "done") =>
        (problems.variant_interval /\ ~problems.time_overlap)

\* C16, amended: for that log the checker returns, having set both
\* variant_interval and time_overlap (the pair with the repeated start time
\* fails the ts1 < ts2 test).
C16_RepeatedStart ==
    C16_Log =>
        /\ pc_check \notin {"error", "fault"}
        /\ pc_check = "done" =>
              (problems.variant_interval /\ problems.time_overlap /\ check_ret)
        /\ (pc_check = "loop" /\ pair_i >= 2) => problems.time_overlap

C16_Witness == C16_Log /\ pc_check = "done" /\ inconsistency_count = 3

\* C17: for a log of at least two records, time_overlap is set exactly when
\* some consecutive pair fails start[i] <= end[i] <= start[i+1] <= end[i+1],
\* start[i] < start[i+1].
C17_Overlap ==
    (record_count >= 2 /\ WellFormedTimes /\ Checked) =>
        (problems.time_overlap <=> \E k \in 1..(record_count - 1) : ~PairOrdered(k))

\* C18: for a log of at least two records, variant_interval is set exactly
\* when some consecutive pair's start-time difference differs from that of
\* the pair before it.
C18_VariantInterval ==
    (record_count >= 2 /\ WellFormedTimes /\ pc_check = "done") =>
        (problems.variant_interval
            <=> \E k \in 2..(record_count - 1) : PairDiff(k) # PairDiff(k - 1))

\* C19: for a log of at least two records,
\* time_range_not_divisible_by_record_count is set exactly when the signed
\* span is not a multiple of record_count - 1, and the nominal interval is the
\* span divided by record_count - 1, truncated.
C19_RangeDivisible ==
    (record_count >= 2 /\ WellFormedTimes /\ pc_check \in {"factor", "loop", "done"}) =>
        /\ problems.time_range_not_divisible_by_record_count
              <=> (Span # Nominal * (record_count - 1))
        /\ interval = Nominal

\* C20: for a log of at least two records, interval_not_divisible_by_60 is
\* set exactly when 60 mod the truncated nominal interval is not 0.
C20_FactorOf60 ==
    (record_count >= 2 /\ WellFormedTimes /\ pc_check \in {"loop", "done"} /\ Nominal # 0) =>
        (problems.interval_not_divisible_by_60 <=> CRem(60, Nominal) # 0)

\* --------------------------------------------------- claims on the pipeline
OpenFailed == "open" \in steps_done /\ ~file_opens
ParseFailed == "parse" \in steps_done /\ status = "error"

\* C12: in log2png a parse error or a failure to open the log file ends the
\* run at once with a failure exit: the consistency check, the canvas
\* allocation, the drawing steps and the image write never happen.
C12_FailFast ==
    (OpenFailed \/ ParseFailed) =>
        /\ pc_main = "exit"
        /\ exit_code = "EXIT_FAILURE"
        /\ steps_done \cap ({"check"} \cup ImageSteps) = {}
        /\ pc_check = "idle"
        /\ OpenFailed => "parse" \notin steps_done

\* a bad sample on line 2 ends the run
C12_Witness ==
    /\ ParseFailed /\ err = "failed to parse double" /\ err_line = 2
    /\ pc_main = "exit" /\ exit_code = "EXIT_FAILURE"

\* the file does not open
C12_WitnessOpen == OpenFailed /\ pc_main = "exit" /\ exit_code = "EXIT_FAILURE"

\* C21: for a log of at least two records, negative_interval is set exactly
\* when some consecutive pair has start_time[i+1] - start_time[i] < 0.
C21_NegativeInterval ==
    (record_count >= 2 /\ WellFormedTimes /\ Checked) =>
        (problems.negative_interval
            <=> \E k \in 1..(record_count - 1) : PairDiff(k) < 0)

AnyFlag ==
    \/ problems.variant_interval
    \/ problems.time_range_not_divisible_by_record_count
    \/ problems.interval_not_divisible_by_60
    \/ problems.negative_interval
    \/ problems.time_overlap

\* C22: the checker does not short-circuit: once the call has ended, every
\* pair has been examined, every anomaly condition that holds for the log has
\* its flag set, and the boolean returned is true exactly when a finding was
\* recorded, that is when some flag is set.
C22_NoShortCircuit ==
    (record_count >= 2 /\ WellFormedTimes /\ Checked) =>
        /\ pair_i = record_count - 1
        /\ (\E k \in 1..(record_count - 1) : ~PairOrdered(k)) => problems.time_overlap
        /\ (\E k \in 1..(record_count - 1) : PairDiff(k) < 0) => problems.negative_interval
        /\ (\E k \in 2..(record_count - 1) : PairDiff(k) # PairDiff(k - 1))
              => problems.variant_interval
        /\ check_ret <=> inconsistency_count > 0
        /\ check_ret <=> AnyFlag

\* C23: consistency findings never stop the pipeline: a run whose log the
\* parser accepted does not end before the image is written.
C23_ImageWritten ==
    ("parse" \in steps_done /\ status = "ok" /\ pc_main = "exit") =>
        ("write" \in steps_done /\ exit_code = "EXIT_SUCCESS")

\* ------------------------------------------------- draw_vertical_gridlines
\* the text of a number
ToTok(x) == Tok(x.cls, x.v)

MIN_GRIDLINES == 6
BANNER_HEIGHT == 64
FOOTER_HEIGHT == 24

\* size_t(h.start_freq * 1e6): a frequency given in whole MHz, in Hz
Hz(f) == f.v * 10^6
freq_range(h) == Hz(h.stop_freq) - Hz(h.start_freq)

\* gridline_exponent * k and gridline_exponent / 10 on magnitudes; 1 / 10 is 0
Times(x, k) == Mag(x.m * k, x.e)
Div10(x) == IF x.m = 0 \/ x.e = 0 THEN Mag(0, 0) ELSE Mag(x.m, x.e - 1)

\* whether m * 10^e is below 2^31, and then its value
Fits(x) == x.e <= 8 \/ (x.e = 9 /\ x.m <= 2)
Val(x) == x.m * 10^x.e

\* n / x on size_t for 0 <= n < 2^31 and x # 0: 0 when x exceeds n
Over(n, x) == IF x.m = -1 \/ ~Fits(x) THEN 0 ELSE n \div Val(x)

\* the locals of draw_vertical_gridlines as a record
GridCtx ==
    [pc |-> grid_pc, gridline_exponent |-> gridline_exponent,
     gridline_spacing |-> gridline_spacing, draw_list |-> draw_list,
     mod_zero |-> mod_zero]

GridFault(g) == [g EXCEPT !.pc = "fault"]

\* lines 222-233: step_freq = (stop_freq - start_freq) / (steps - 1), then
\* gridline_exponent = 10^11 and gridline_spacing = SIZE_MAX
step_freq(h, steps) ==
    IF steps - 1 = 0 THEN 0 ELSE freq_range(h) \div (steps - 1)

GridSetup(g, h, steps, mz) ==
    LET z == ByZero(g, mz)
        go == [pc |-> "search", gridline_exponent |-> Mag(1, 11),
               gridline_spacing |-> Mag(SIZE_MAX, 0), draw_list |-> << >>]
    IN  IF steps - 1 = 0
        THEN IF z.mod_zero = "trap" THEN GridFault(z)
             ELSE go @@ [mod_zero |-> z.mod_zero]
        ELSE go @@ [mod_zero |-> g.mod_zero]

\* lines 238-245, for a gridline_exponent that is not 0: try 5x and 2x, then
\* leave 1x to the loop condition and go down a decade
SearchBody(g, n) ==
    LET e == g.gridline_exponent
    IN  IF Over(n, Times(e, 5)) >= MIN_GRIDLINES
        THEN [g EXCEPT !.gridline_spacing = Times(e, 5), !.pc = "layout"]
        ELSE IF Over(n, Times(e, 2)) >= MIN_GRIDLINES
        THEN [g EXCEPT !.gridline_spacing = Times(e, 2), !.pc = "layout"]
        ELSE [g EXCEPT !.gridline_spacing = e, !.gridline_exponent = Div10(e)]

\* lines 236-246: one evaluation of the loop condition and, when it holds, of
\* the body. A spacing of 0 makes freq_range / gridline_spacing a division
\* by zero; where it does not trap the quotient is 0.
GridSearch(g, h, mz) ==
    LET n == freq_range(h)
        z == ByZero(g, mz)
    IN  IF g.gridline_spacing.m = 0
        THEN IF z.mod_zero = "trap" THEN GridFault(z) ELSE z
        ELSE IF ~(Over(n, g.gridline_spacing) < MIN_GRIDLINES)
        THEN [g EXCEPT !.pc = "layout"]
        ELSE IF g.gridline_exponent.m = 0
        THEN IF z.mod_zero = "trap" THEN GridFault(z)
             ELSE [z EXCEPT !.gridline_spacing = Mag(0, 0)]
        ELSE SearchBody(g, n)

\* lines 250-252
gridline_count(g, h) == Over(freq_range(h), g.gridline_spacing) + 1
last_gridline_point(g, h, steps) ==
    LET sp == Val(g.gridline_spacing)
    IN  IF step_freq(h, steps) = 0 THEN 0
        ELSE (((Hz(h.stop_freq) \div sp) * sp) - Hz(h.start_freq)) \div step_freq(h, steps)

\* gridline_spacing / step_freq
PointsPerLine(g, h, steps) ==
    IF step_freq(h, steps) = 0 THEN 0
    ELSE Val(g.gridline_spacing) \div step_freq(h, steps)

GridLayout(g, h, steps, mz) ==
    LET z == ByZero(g, mz)
    IN  IF step_freq(h, steps) = 0
        THEN IF z.mod_zero = "trap" THEN GridFault(z) ELSE [z EXCEPT !.pc = "lines"]
        ELSE [g EXCEPT !.pc = "lines"]

\* lines 255-260, iteration i = Len(draw_list): x in the signed reading of
\* size_t, so a negative x stands for a wrapped subtraction
GridLineX(g, h, steps) ==
    last_gridline_point(g, h, steps) - Len(g.draw_list) * PointsPerLine(g, h, steps)

GridLine(g, h, steps) ==
    [g EXCEPT !.draw_list = Append(@, GridLineX(g, h, steps))]

InstallGrid(g) ==
    /\ grid_pc' = g.pc
    /\ gridline_exponent' = g.gridline_exponent
    /\ gridline_spacing' = g.gridline_spacing
    /\ draw_list' = g.draw_list
    /\ mod_zero' = g.mod_zero

\* const auto &h = headers.back()
LastHeader == headers[Len(headers)]

drawVars == <<draw_pc, pixels, iter_pc, channels>>

\* --------------------------------------------------------- the pixel buffer
\* Quantum values are held in hundredths of QuantumRange. The buffer is held
\* by the cells written since the canvas was made; every other cell has the
\* value the constructor gave it (black, opaque).
Width == LastHeader.steps
Height == record_count + BANNER_HEIGHT + FOOTER_HEIGHT
Cell(x, y, c) == (y * Width + x) * channels + c
Fresh(cell) == IF cell % channels = 3 THEN 100 ELSE 0
At(px, cell) == IF cell \in DOMAIN px THEN px[cell] ELSE Fresh(cell)
Put(px, cell, v) == [k \in (DOMAIN px) \cup {cell} |-> IF k = cell THEN v ELSE px[k]]

\* the colour channels a loop iteration writes, in order
RGBA == <<0, 1, 2, 3>>
RGB == <<0, 1, 2>>

\* tinycolormap::GetColor(x, Cubehelix) for x = t / 100: x is clamped to
\* [0, 1] and mapped by a fixed curve from black to white
Clamp(t) == IF t < 0 THEN 0 ELSE IF t > 100 THEN 100 ELSE t
GetColor(t) ==
    <<Clamp(t), (Clamp(t) * Clamp(t)) \div 100, (Clamp(t) * (200 - Clamp(t))) \div 100>>

\* (power_data.at(i) + 120) / 100, in hundredths
Normalized(power) == power.v + 120

\* the cell pixels[i * channels + c] after the banner was skipped
SampleCellNoBanner(i, c) == i * channels + c
SampleCellAlpha(i, c) == Width * channels * BANNER_HEIGHT + i * channels + c + 1
SampleCellOverlapping(i, c) == Width * channels * BANNER_HEIGHT + i + c

SampleCell(i, c) == Width * channels * BANNER_HEIGHT + i * channels + c

\* the k-th assignment of iteration i (lines 178-180)
WriteChannel(px, i, k) ==
    Put(px, SampleCell(i, RGB[k]), GetColor(Normalized(power_data[i + 1]))[RGB[k] + 1])

\* draw_text: annotate paints glyph pixels inside the strip the gravity
\* names; one pixel stands for them
TextCells(x, y) == {Cell(x, y, c) : c \in 0..2}
PutAll(px, cells, v) ==
    [k \in (DOMAIN px) \cup cells |-> IF k \in cells THEN v ELSE px[k]]

\* a DrawableLine(x, yoffset, x, yoffset + h - 1) in grey at alpha 0.75: the
\* colour channels of the pixels of column x it covers are blended; a line
\* outside the canvas paints nothing
Blend(v) == (3 * 75 + v) \div 4
NoLineCells(x) == {}
LineCells(x) ==
    IF x < 0 \/ x >= Width THEN {}
    ELSE {Cell(x, y, c) : y \in BANNER_HEIGHT..(BANNER_HEIGHT + record_count - 1), c \in 0..2}
\* image.draw(draw_list) draws the lines one after the other: a cell is
\* blended once for each line of the list that covers it
RECURSIVE BlendTimes(_, _)
BlendTimes(v, n) == IF n = 0 THEN v ELSE Blend(BlendTimes(v, n - 1))
Covering(list, cell) == Cardinality({k \in 1..Len(list) : cell \in LineCells(list[k])})
DrawList(px, list) ==
    [cell \in (DOMAIN px) \cup UNION {LineCells(list[k]) : k \in 1..Len(list)} |->
        BlendTimes(At(px, cell), Covering(list, cell))]

\* ------------------------------------- the steps of draw_vertical_gridlines
Setup ==
    /\ grid_pc = "setup"
    /\ \E mz \in ModZeroOutcomes :
          InstallGrid(GridSetup(GridCtx, LastHeader, LastHeader.steps, mz))
    /\ UNCHANGED <<twiceVars, saveVars, capVars, parserVars, checkVars, mainVars, drawVars>>

SearchSpacing ==
    /\ grid_pc = "search"
    /\ \E mz \in ModZeroOutcomes : InstallGrid(GridSearch(GridCtx, LastHeader, mz))
    /\ UNCHANGED <<twiceVars, saveVars, capVars, parserVars, checkVars, mainVars, drawVars>>

Layout ==
    /\ grid_pc = "layout"
    /\ \E mz \in ModZeroOutcomes :
          InstallGrid(GridLayout(GridCtx, LastHeader, LastHeader.steps, mz))
    /\ UNCHANGED <<twiceVars, saveVars, capVars, parserVars, checkVars, mainVars, drawVars>>

AddLine ==
    /\ grid_pc = "lines"
    /\ Len(draw_list) < gridline_count(GridCtx, LastHeader)
    /\ InstallGrid(GridLine(GridCtx, LastHeader, LastHeader.steps))
    /\ UNCHANGED <<twiceVars, saveVars, capVars, parserVars, checkVars, mainVars, drawVars>>

\* image.draw(draw_list)
DrawLines ==
    /\ grid_pc = "lines"
    /\ ~(Len(draw_list) < gridline_count(GridCtx, LastHeader))
    /\ InstallGrid([GridCtx EXCEPT !.pc = "done"])
    /\ pixels' = DrawList(pixels, draw_list)
    /\ draw_pc' = "write"
    /\ UNCHANGED <<twiceVars, saveVars, capVars, parserVars, checkVars, mainVars, iter_pc, channels>>

\* ------------------------------------------- the sweeps gridlines are for
MaxRows == 2
FreqPairs == {<<88, 108>>, <<87, 107>>, <<1, 7>>, <<1, 3>>, <<1, 2000>>, <<433, 435>>}
GridSteps == {1, 2, 7, 11}

BandHeader(sf, ef, st) ==
    ScannedHeader(HeaderLine(N(sf), N(ef), N(st), N(1), Clock(0), Clock(0)))

InitGrid ==
    /\ \E f \in FreqPairs, st \in GridSteps, n \in 1..MaxRows :
          /\ headers = [k \in 1..n |-> BandHeader(f[1], f[2], st)]
          /\ power_data = [k \in 1..(n * st) |-> Num(-50)]
    /\ parse_header(HeaderLine(ToTok(headers[1].start_freq), ToTok(headers[1].stop_freq),
                                N(headers[1].steps), N(1), T0, T0)).ret
    /\ first_header = headers[1]
    /\ lines_per_record = headers[1].steps + 2
    /\ input = << >> /\ real_line_count = 0 /\ in_record_line_count = 0
    /\ role = "none" /\ status = "ok" /\ err = "none" /\ err_line = 0
    /\ mod_zero = "unevaluated"
    /\ CheckIdle
    /\ MainIdle
    /\ grid_pc = "setup" /\ gridline_exponent = Mag(0, 0) /\ gridline_spacing = Mag(0, 0)
    /\ draw_list = << >> /\ draw_pc = "gridlines" /\ pixels = << >> /\ iter_pc = << >>
    /\ channels = 4
    /\ CapIdle
    /\ TwiceIdle
    /\ SaveIdle

NextGrid ==
    \/ Setup
    \/ SearchSpacing
    \/ Layout
    \/ AddLine
    \/ DrawLines

SpecGrid == InitGrid /\ [][NextGrid]_vars

\* -------------------------------------------- the image processing part
renderRest == <<parserVars, checkVars, mainVars, capVars, twiceVars, saveVars>>

\* lines 364-371: Image image(Geometry(width, height), Color("black"))
NewImage ==
    /\ draw_pc = "image"
    /\ pixels' = << >>
    /\ draw_pc' = "banner"
    /\ UNCHANGED <<renderRest, mod_zero, grid_pc, gridline_exponent, gridline_spacing,
                   draw_list, iter_pc, channels>>

\* line 374: the banner text, then draw_spectrogram up to its loop
BannerText ==
    /\ draw_pc = "banner"
    /\ pixels' = PutAll(pixels, TextCells(0, 0), 100)
    /\ iter_pc' = [i \in 0..(Len(power_data) - 1) |-> 0]
    /\ draw_pc' = "spectrogram"
    /\ UNCHANGED <<renderRest, mod_zero, grid_pc, gridline_exponent, gridline_spacing,
                   draw_list, channels>>

\* lines 175-180 under omp parallel for: some iteration not yet finished
\* performs its next assignment
ColorSample ==
    /\ draw_pc = "spectrogram"
    /\ \E i \in DOMAIN iter_pc :
          /\ iter_pc[i] < Len(RGB)
          /\ pixels' = WriteChannel(pixels, i, iter_pc[i] + 1)
          /\ iter_pc' = [iter_pc EXCEPT ![i] = @ + 1]
    /\ UNCHANGED <<renderRest, mod_zero, grid_pc, gridline_exponent, gridline_spacing,
                   draw_list, draw_pc, channels>>

\* the end of the parallel loop, then view.sync()
SyncView ==
    /\ draw_pc = "spectrogram"
    /\ \A i \in DOMAIN iter_pc : iter_pc[i] = Len(RGB)
    /\ draw_pc' = "footer"
    /\ UNCHANGED <<renderRest, mod_zero, grid_pc, gridline_exponent, gridline_spacing,
                   draw_list, pixels, iter_pc, channels>>

\* line 383: the footer text
FooterText ==
    /\ draw_pc = "footer"
    /\ pixels' = PutAll(pixels, TextCells(Width - 1, Height - 1), 100)
    /\ draw_pc' = IF do_gridlines THEN "gridlines" ELSE "write"
    /\ UNCHANGED <<renderRest, mod_zero, grid_pc, gridline_exponent, gridline_spacing,
                   draw_list, iter_pc, channels>>

\* lines 386-389: draw_vertical_gridlines(h.steps, record_count, h, image) is
\* entered; Setup, SearchSpacing, Layout, AddLine and DrawLines are its steps
Gridlines ==
    /\ draw_pc = "gridlines"
    /\ grid_pc = "idle"
    /\ grid_pc' = "setup"
    /\ UNCHANGED <<renderRest, mod_zero, gridline_exponent, gridline_spacing,
                   draw_list, draw_pc, pixels, iter_pc, channels>>

\* line 394: image.write(output_name)
Encode ==
    /\ draw_pc = "write"
    /\ draw_pc' = "done"
    /\ UNCHANGED <<renderRest, mod_zero, grid_pc, gridline_exponent, gridline_spacing,
                   draw_list, pixels, iter_pc, channels>>

\* ------------------------------------------------ the logs that are drawn
DrawSteps == {1, 2}
DrawBands == {<<88, 108>>, <<87, 107>>}
\* dBm values below, inside and above the displayed range
SampleCycle == <<-130, -70, -20, 0, -120, -45>>
SampleAt(k, o) == Num(SampleCycle[((k + o) % Len(SampleCycle)) + 1])

InitDraw ==
    /\ \E f \in DrawBands, st \in DrawSteps, n \in 1..MaxRows, o \in 0..1 :
          /\ headers = [k \in 1..n |-> BandHeader(f[1], f[2], st)]
          /\ power_data = [k \in 1..(n * st) |-> SampleAt(k, o)]
    /\ first_header = headers[1]
    /\ lines_per_record = headers[1].steps + 2
    /\ input = << >> /\ real_line_count = 0 /\ in_record_line_count = 0
    /\ role = "none" /\ status = "ok" /\ err = "none" /\ err_line = 0
    /\ mod_zero = "unevaluated"
    /\ CheckIdle
    /\ pc_main = "idle" /\ steps_done = {} /\ exit_code = "none"
    /\ logfile = << >> /\ file_opens = TRUE /\ do_gridlines \in BOOLEAN
    /\ grid_pc = "idle" /\ gridline_exponent = Mag(0, 0) /\ gridline_spacing = Mag(0, 0)
    /\ draw_list = << >> /\ draw_pc = "image" /\ pixels = << >> /\ iter_pc = << >>
    /\ channels \in {3, 4}
    /\ CapIdle
    /\ TwiceIdle
    /\ SaveIdle

NextDraw ==
    \/ NewImage
    \/ BannerText
    \/ ColorSample
    \/ SyncView
    \/ FooterText
    \/ Gridlines
    \/ Setup
    \/ SearchSpacing
    \/ Layout
    \/ AddLine
    \/ DrawLines
    \/ Encode

SpecDraw == InitDraw /\ [][NextDraw]_vars

\* ------------------------------------------------ claims on the colouring
\* the colour the mapper gives the sample of record r and bin b
SampleOf(r, b) == power_data[r * Width + b + 1]
MappedColour(r, b) == GetColor(SampleOf(r, b).v + 120)
DataRows == 0..(record_count - 1)
Bins == 0..(Width - 1)
Coloured == draw_pc = "footer"

\* C24: when the colouring step has ended, the pixel of column b in row
\* BANNER_HEIGHT + r of the canvas of width steps holds the colour the mapper
\* gives (power + 120) / 100 for the sample of bin b of record r.
C24_PixelColour ==
    Coloured =>
        \A r \in DataRows, b \in Bins, c \in 0..2 :
            At(pixels, Cell(b, BANNER_HEIGHT + r, c)) = MappedColour(r, b)[c + 1]

C24_Witness ==
    /\ Coloured
    /\ record_count = 2 /\ Width = 2
    /\ MappedColour(1, 1) # MappedColour(0, 0)
    /\ At(pixels, Cell(1, BANNER_HEIGHT + 1, 0)) = MappedColour(1, 1)[1]
    /\ At(pixels, Cell(1, BANNER_HEIGHT + 1, 0)) > 0

\* the loop run by one thread: iterations 0 .. n - 1 in order
RECURSIVE Sequential(_, _)
Sequential(px, n) ==
    IF n = 0 THEN px
    ELSE WriteChannel(WriteChannel(WriteChannel(Sequential(px, n - 1), n - 1, 1), n - 1, 2),
                      n - 1, 3)
BeforeLoop == PutAll(<< >>, TextCells(0, 0), 100)
WrittenBy(i) == {SampleCell(i, RGB[k]) : k \in 1..Len(RGB)}
Looping == draw_pc = "spectrogram"

\* C26: the iterations of the parallel colouring loop write pairwise disjoint
\* cells, what an iteration writes does not depend on a cell another
\* iteration writes, and whatever the interleaving the buffer after the loop
\* is the buffer the loop run sequentially leaves.
C26_RaceFree ==
    /\ Looping =>
          /\ \A i, j \in DOMAIN iter_pc : i # j => WrittenBy(i) \cap WrittenBy(j) = {}
          /\ \A i \in DOMAIN iter_pc : \A k \in (iter_pc[i] + 1)..Len(RGB) :
                WriteChannel(pixels, i, k)[SampleCell(i, RGB[k])]
                    = WriteChannel(BeforeLoop, i, k)[SampleCell(i, RGB[k])]
    /\ Coloured => pixels = Sequential(BeforeLoop, Len(power_data))

\* iterations are under way out of order, each partly done
C26_Witness ==
    /\ Looping
    /\ Len(power_data) = 4
    /\ iter_pc[0] = 1 /\ iter_pc[1] = 2 /\ iter_pc[2] = 0 /\ iter_pc[3] = 3

\* the loop has ended after such an interleaving
C26_WitnessEnd ==
    /\ Coloured
    /\ Len(power_data) = 4
    /\ pixels = Sequential(BeforeLoop, 4)
    /\ pixels # BeforeLoop

DataColourCells == {Cell(b, BANNER_HEIGHT + r, c) : b \in Bins, r \in DataRows, c \in 0..2}

\* C27: the colouring step writes only the three colour channels of the
\* pixels in rows BANNER_HEIGHT .. BANNER_HEIGHT + record_count - 1: the
\* fourth channel of every pixel and every pixel of the banner and footer
\* strips keep the value they had, and no write falls outside the buffer.
C27_ColourChannelsOnly ==
    (Looping \/ Coloured) =>
        /\ \A cell \in DOMAIN pixels : 0 <= cell /\ cell < Width * Height * channels
        /\ \A cell \in (DOMAIN pixels) \ DataColourCells :
              cell \in DOMAIN BeforeLoop /\ pixels[cell] = BeforeLoop[cell]
        /\ DOMAIN BeforeLoop \subseteq DOMAIN pixels

C27_Witness ==
    /\ Coloured
    /\ channels = 4 /\ record_count = 2 /\ Width = 2
    /\ At(pixels, Cell(1, BANNER_HEIGHT + 1, 1)) > 0
    /\ At(pixels, Cell(1, BANNER_HEIGHT + 1, 3)) = 100
    /\ At(pixels, Cell(0, 0, 0)) = 100
    /\ At(pixels, Cell(0, BANNER_HEIGHT + 2, 0)) = 0

Encoded == draw_pc = "done"
LinesAt(b) == Cardinality({k \in 1..Len(draw_list) : draw_list[k] = b})

Candidate(k) ==
    Mag(IF k % 3 = 0 THEN 5 ELSE IF k % 3 = 1 THEN 2 ELSE 1, 11 - (k \div 3))
Candidates == 0..35
Accepts(n, k) == Over(n, Candidate(k)) >= MIN_GRIDLINES
GridEnded == grid_pc \in {"layout", "lines", "done", "fault"}

\* C28: the gridline spacing is the first candidate, in the order 5x, 2x, 1x
\* of each power of ten descending from 10^11 Hz, whose quotient
\* freq_range / spacing is at least MIN_GRIDLINES; it is a member of the
\* 1-2-5 sequence, and for 88 MHz to 108 MHz it is 2,000,000 Hz.
C28_FirstCandidate ==
    GridEnded =>
        /\ \E k \in Candidates :
              /\ gridline_spacing = Candidate(k)
              /\ Accepts(freq_range(LastHeader), k)
              /\ \A j \in Candidates : j < k => ~Accepts(freq_range(LastHeader), j)
        /\ gridline_spacing.m \in {1, 2, 5}
        /\ (LastHeader.start_freq = Num(88) /\ LastHeader.stop_freq = Num(108))
              => (gridline_spacing = Mag(2, 6) /\ Val(gridline_spacing) = 2000000)

\* the multiples of sp within [lo, hi]
MultiplesWithin(lo, hi, sp) == (hi \div sp) - ((lo + sp - 1) \div sp) + 1

\* C29: the gridlines drawn are the multiples of the spacing within
\* [start_freq, stop_freq]: as many lines as there are such multiples, each
\* at a pixel column in [0, steps - 1].
C29_GridlinesInRange ==
    grid_pc = "done" =>
        /\ Len(draw_list) = MultiplesWithin(Hz(LastHeader.start_freq),
                                            Hz(LastHeader.stop_freq), Val(gridline_spacing))
        /\ \A i \in 1..Len(draw_list) :
              0 <= draw_list[i] /\ draw_list[i] <= LastHeader.steps - 1

\* ------------------------------------------------ the cap on the records
MAX_RECORDS == 1440

\* vector::erase(begin() + first, begin() + last)
Erase(v, first, last) == SubSeq(v, 1, first) \o SubSeq(v, last + 1, Len(v))

\* line 204: the samples left in power_data
TruncatedAtEnd(pd, rc, st) == Erase(pd, MAX_RECORDS * st, Len(pd))
Truncated(pd, rc, st) == Erase(pd, 0, (rc - MAX_RECORDS) * st)

capRest == <<parserVars, mod_zero, checkVars, mainVars, renderVars, twiceVars, saveVars>>

\* lines 194-196: if(power_data.size() != record_count * steps) if_error
SizeCheck ==
    /\ cap_pc = "size"
    /\ cap_pc' = IF Len(power_data) # main_record_count * main_steps THEN "exit" ELSE "report"
    /\ UNCHANGED <<capRest, main_record_count, main_steps, reported_records, image_height>>

\* line 198: the message with the number of records and points
Report ==
    /\ cap_pc = "report"
    /\ reported_records' = main_record_count
    /\ cap_pc' = "cap"
    /\ UNCHANGED <<capRest, main_record_count, main_steps, image_height>>

\* lines 200-206: remove records if their number exceeds MAX_RECORDS
CapRecords ==
    /\ cap_pc = "cap"
    /\ IF main_record_count > MAX_RECORDS
       THEN /\ power_data' = Truncated(power_data, main_record_count, main_steps)
            /\ main_record_count' = MAX_RECORDS
       ELSE UNCHANGED <<power_data, main_record_count>>
    /\ cap_pc' = "image"
    /\ UNCHANGED <<input, real_line_count, in_record_line_count, lines_per_record,
                   first_header, headers, role, status, err, err_line, mod_zero,
                   checkVars, mainVars, renderVars, main_steps, reported_records,
                   image_height, twiceVars, saveVars>>

\* lines 214-217: the image of width steps and height record_count plus strips
MakeImage ==
    /\ cap_pc = "image"
    /\ image_height' = main_record_count + BANNER_HEIGHT + FOOTER_HEIGHT
    /\ cap_pc' = "draw"
    /\ UNCHANGED <<capRest, main_record_count, main_steps, reported_records>>

\* ------------------------------------------------- the logs that are capped
MaxOver == 4
CapSteps == {1, 2, 3}
\* a sample that tells its place in the log
Labelled(k) == Num(-k)

InitCap ==
    /\ \E n \in (MAX_RECORDS - MaxOver)..(MAX_RECORDS + MaxOver), st \in CapSteps :
          /\ main_record_count = n
          /\ main_steps = st
          /\ power_data = [k \in 1..(n * st) |-> Labelled(k)]
    /\ headers = << >>
    /\ first_header = ZeroHeader
    /\ lines_per_record = 0
    /\ input = << >> /\ real_line_count = 0 /\ in_record_line_count = 0
    /\ role = "none" /\ status = "ok" /\ err = "none" /\ err_line = 0
    /\ mod_zero = "unevaluated"
    /\ CheckIdle
    /\ MainIdle
    /\ RenderIdle
    /\ cap_pc = "size" /\ reported_records = 0 /\ image_height = 0
    /\ TwiceIdle
    /\ SaveIdle

NextCap ==
    \/ SizeCheck
    \/ Report
    \/ CapRecords
    \/ MakeImage

SpecCap == InitCap /\ [][NextCap]_vars

\* C30: when more records were parsed than MAX_RECORDS the run does not
\* fail: the oldest record_count - MAX_RECORDS records are dropped, the
\* renderer gets the newest MAX_RECORDS records in their order, and the
\* number of samples is record_count * steps for the reduced record_count.
C30_OldestDropped ==
    (reported_records > MAX_RECORDS /\ cap_pc \in {"image", "draw", "exit"}) =>
        /\ cap_pc # "exit"
        /\ main_record_count = MAX_RECORDS
        /\ Len(power_data) = main_record_count * main_steps
        /\ \A j \in 1..Len(power_data) :
              power_data[j] = Labelled((reported_records - MAX_RECORDS) * main_steps + j)
        /\ cap_pc = "draw" => image_height = MAX_RECORDS + BANNER_HEIGHT + FOOTER_HEIGHT

C30_Witness ==
    /\ cap_pc = "draw"
    /\ reported_records = MAX_RECORDS + 2
    /\ main_steps = 2
    /\ main_record_count = MAX_RECORDS
    /\ power_data[1] = Labelled(5)
    /\ power_data[Len(power_data)] = Labelled((MAX_RECORDS + 2) * 2)

\* --------------------------------------- further claims on the checker
\* C34: for a log of at least two records with well-formed timestamps,
\* also one whose nominal interval is 0, check_logfile_time_consistency
\* completes without a division or a modulus by zero.
C34_NoZeroDivisor ==
    (record_count >= 2 /\ WellFormedTimes /\ pc_check # "idle") =>
        (mod_zero = "unevaluated" /\ pc_check # "fault")

\* ------------------------------------- further claims on the gridlines
Accepted(h) ==
    parse_header(HeaderLine(ToTok(h.start_freq), ToTok(h.stop_freq), N(h.steps), N(1), T0, T0)).ret

\* C33: for a header the parser accepts, draw_vertical_gridlines divides by
\* zero nowhere, and its search ends with a spacing of at least 1 Hz whose
\* quotient freq_range / spacing is at least MIN_GRIDLINES.
C33_GridlinesTotal ==
    Accepted(LastHeader) =>
        /\ mod_zero = "unevaluated"
        /\ grid_pc # "fault"
        /\ grid_pc \in {"layout", "lines", "done"} =>
              /\ Val(gridline_spacing) >= 1
              /\ Over(freq_range(LastHeader), gridline_spacing) >= MIN_GRIDLINES

\* --------------------------------------- further claims on the parser
\* C35: once the first header is accepted lines_per_record is its steps + 2,
\* computed without wrap-around, so at least 3 and never 0; it keeps that
\* value, and no line's role is computed with a modulus by zero.
C35_LinesPerRecord ==
    first_header.steps # 0 =>
        /\ lines_per_record = headers[1].steps + 2
        /\ lines_per_record >= 3
        /\ mod_zero = "unevaluated"

\* C36: a line in data position that starts with a number and goes on with
\* other characters is rejected: every data line taken is one number and
\* nothing else.
C36_WholeLineNumber ==
    (role = "data" /\ Len(LastLine) # 1) => status = "error"

\* ------------------------------------------ parse_logfile called again
\* lines 86-100 at the entry of a call: every local is declared anew, and the
\* caller passes its own empty vectors; what an earlier call left is gone
EnterParseStaticHeader(s) ==
    [InitCtx EXCEPT !.first_header = s.first_header,
                    !.lines_per_record = s.lines_per_record,
                    !.mod_zero = s.mod_zero]

EnterParse(s) == [InitCtx EXCEPT !.mod_zero = s.mod_zero]

\* what a call leaves to its caller: how it ended and the two vectors
Left(s) ==
    [status |-> s.status, err |-> s.err, err_line |-> s.err_line,
     headers |-> s.headers, power_data |-> s.power_data]

\* one call of parse_logfile on the next stream; a trap ends the process
CallParse ==
    /\ pending # << >>
    /\ status # "fault"
    /\ \E mz \in ModZeroOutcomes :
          /\ Install(RunFrom(EnterParse(Ctx), Head(pending), 1, mz))
          /\ input' = SubSeq(Head(pending), 1,
                             RunFrom(EnterParse(Ctx), Head(pending), 1, mz).real_line_count)
          /\ results' = Append(results,
                 [stream |-> Head(pending),
                  left |-> Left(RunFrom(EnterParse(Ctx), Head(pending), 1, mz))])
    /\ pending' = Tail(pending)
    /\ UNCHANGED <<checkVars, mainVars, renderVars, capVars, saveVars>>

\* ------------------------------------------------ the logs parsed in turn
TwoStepLog ==
    <<HeaderLine(N(1), N(3), N(2), N(1), Clock(0), Clock(60)), <<N(-50)>>, <<N(-20)>>, EmptyLine>>
OtherBandLog ==
    <<HeaderLine(N(2), N(3), N(1), N(1000), Clock(0), Clock(60)), <<N(-70)>>, EmptyLine>>
TwiceLogs ==
    {<< >>,
     Record(0, "none"),
     Record(0, "none") \o Record(60, "none"),
     <<<<HASH, JUNK>>>> \o Record(0, "none"),
     TwoStepLog,
     TwoStepLog \o TwoStepLog,
     OtherBandLog,
     Record(0, "none") \o <<SweepLine(Clock(60), Clock(60)), <<JUNK>>>>,
     TwoStepLog \o <<<<DOLLAR>>>>,
     <<HeaderLine(N(1), N(3), N(-2), N(1), Clock(0), Clock(0)), <<N(-50)>>>>,
     <<HeaderLine(N(1), N(3), N(-1), N(1), Clock(0), Clock(0)), EmptyLine>>}

InitTwice ==
    /\ pending \in {<<a, b>> : a \in TwiceLogs, b \in TwiceLogs}
    /\ results = << >>
    /\ input = << >>
    /\ real_line_count = InitCtx.real_line_count
    /\ in_record_line_count = InitCtx.in_record_line_count
    /\ lines_per_record = InitCtx.lines_per_record
    /\ first_header = InitCtx.first_header
    /\ headers = InitCtx.headers
    /\ power_data = InitCtx.power_data
    /\ role = InitCtx.role
    /\ status = InitCtx.status
    /\ err = InitCtx.err
    /\ err_line = InitCtx.err_line
    /\ mod_zero = InitCtx.mod_zero
    /\ CheckIdle
    /\ MainIdle
    /\ RenderIdle
    /\ CapIdle
    /\ SaveIdle

NextTwice == CallParse

SpecTwice == InitTwice /\ [][NextTwice]_vars

C31_WitnessAfterFailure ==
    /\ Len(results) = 2
    /\ results[1].left.status = "error" /\ Len(results[1].left.headers) = 2
    /\ results[2].stream = OtherBandLog /\ results[2].left.status = "ok"

\* ------------------------------------------------------------------ spsave
\* system_clock counts ticks; time_str and the sleep target count seconds
TicksPerSec == 2
ZERO_LEVEL_ULTRA == 174

\* time_str(): the clock floored to seconds, formatted
time_str(t) == TimeTok(Fmt(t \div TicksPerSec))

\* ceil(t, m) of lines 216-224: t in ticks, m and the result in seconds
ceilWithoutStep(t, m) == (t \div (m * TicksPerSec)) * m

ceil(t, m) ==
    IF ((t \div (m * TicksPerSec)) * m) * TicksPerSec < t
    THEN (t \div (m * TicksPerSec)) * m + m
    ELSE (t \div (m * TicksPerSec)) * m

\* awake_time(interval) when system_clock::now() is t
awake_time(interval_, t) == ceil(t, interval_)

\* the bytes of the device's reply that matter
BRACE == 123
LETTER_X == 120
PROMPT == <<99, 104, 62, 32>>

\* response.find_first_of('{') + 1 as an unsigned int: 0 when there is none
AfterBrace(response) ==
    IF \E k \in 1..Len(response) : response[k] = BRACE
    THEN CHOOSE k \in 1..Len(response) :
            response[k] = BRACE /\ \A j \in 1..(k - 1) : response[j] # BRACE
    ELSE 0

\* response[i] for a 0-based i: '\0' at i = length; beyond it the read is
\* undefined and gives junk
ByteAt(response, i, junk) ==
    IF i < Len(response) THEN response[i + 1]
    ELSE IF i = Len(response) THEN 0 ELSE junk

\* the nearest integer to num / den, a tie going to the even one, as the
\* formatting of a double rounds
RoundHalfEven(num, den) ==
    IF 2 * (num % den) < den THEN num \div den
    ELSE IF 2 * (num % den) > den THEN (num \div den) + 1
    ELSE IF (num \div den) % 2 = 0 THEN num \div den
    ELSE (num \div den) + 1

\* format("{:.1f}", data / 32.0 - zero_level) for the uint16_t data of lines
\* 197-203: the text of a number, here in tenths of a dBm
DataLine(lo, hi, zero_level) ==
    <<N(RoundHalfEven(((lo % 256) + 256 * (hi % 256)) * 10 - 320 * zero_level, 32))>>

\* lines 193-208: one data line for each leading 'x' triple after the brace
RECURSIVE Points(_, _, _, _)
Points(response, i, zero_level, junk) ==
    IF i < Len(response) /\ response[i + 1] = LETTER_X
    THEN <<DataLine(ByteAt(response, i + 1, junk), ByteAt(response, i + 2, junk), zero_level)>>
         \o Points(response, i + 3, zero_level, junk)
    ELSE << >>

\* the header line of lines 190-191: it starts with '#'
ScanHeader(h, end_time) ==
    <<HASH, ToTok(h.start_freq), ToTok(h.stop_freq), N(h.steps), ToTok(h.rbw),
      h.start_time, end_time>>

\* what read_scanraw writes to output for the reply it has read
read_scanraw(response, zero_level, h, end_time, junk) ==
    <<ScanHeader(h, end_time)>>
    \o Points(response, AfterBrace(response), zero_level, junk)
    \o <<EmptyLine>>

\* new_logfile: closes the open file and opens one named after the time
NewFile(t) == [name |-> time_str(t), records |-> 0]

\* the test of line 407
RotatesAbove(count) == count > MAX_RECORDS
Rotates(count) == count >= MAX_RECORDS

\* ---------------------------------------------------- the sweep loop
MaxTicks == 8
Intervals == {1, 2, 3}
\* the instant the model takes the loop up at
SaveStart == MAX_RECORDS * 3 * TicksPerSec
Running == now < SaveStart + MaxTicks

\* the replies of the device: an echo, the points in braces, the prompt
Point(lo, hi) == <<LETTER_X, lo, hi>>
Reply(points) == <<115, 10, BRACE>> \o points \o <<125>> \o PROMPT
Replies ==
    {Reply(<< >>),
     Reply(Point(0, 16)),
     Reply(Point(0, 16) \o Point(255, 20)),
     Reply(Point(0, 16) \o Point(255, 20) \o Point(32, 0)),
     <<63>> \o PROMPT,
     <<115, 10, BRACE>> \o Point(0, 16) \o <<LETTER_X, 7>>}

SweepHdr ==
    [start_freq |-> Num(1), stop_freq |-> Num(3), steps |-> scan_steps, rbw |-> Num(10),
     start_time |-> time_str(now), end_time |-> JUNK]

saveRest == <<parserVars, mod_zero, checkVars, mainVars, renderVars, capVars, twiceVars>>

\* line 399: awake_time(interval) is evaluated
AwakeTime ==
    /\ save_pc = "awake"
    /\ Running
    /\ wake' = awake_time(sweep_interval, now)
    /\ save_pc' = "sleep"
    /\ UNCHANGED <<saveRest, now, sweep_start, sweep_interval, save_record_count, output,
                   closed, last_record, scan_steps>>

\* line 399: sleep_until returns, no earlier than wake and within the second
SleepUntil ==
    /\ save_pc = "sleep"
    /\ \E late \in 0..(TicksPerSec - 1) :
          now' = (IF now > wake * TicksPerSec THEN now ELSE wake * TicksPerSec) + late
    /\ save_pc' = "sweep"
    /\ UNCHANGED <<saveRest, wake, sweep_start, sweep_interval, save_record_count, output,
                   closed, last_record, scan_steps>>

\* lines 400-404: start_time, the scanraw command, read_scanraw, record_count++
Sweep ==
    /\ save_pc = "sweep"
    /\ sweep_start' = now \div TicksPerSec
    /\ \E response \in Replies, took \in 1..TicksPerSec, junk \in {0, 255} :
          /\ now' = now + took
          /\ last_record' = read_scanraw(response, ZERO_LEVEL_ULTRA, SweepHdr,
                                          time_str(now + took), junk)
    /\ output' = [output EXCEPT !.records = @ + 1]
    /\ save_record_count' = save_record_count + 1
    /\ save_pc' = "rotate"
    /\ UNCHANGED <<saveRest, wake, sweep_interval, closed, scan_steps>>

\* lines 406-413: rotate file
Rotate ==
    /\ save_pc = "rotate"
    /\ IF Rotates(save_record_count)
       THEN /\ save_record_count' = 0
            /\ closed' = Append(closed, output)
            /\ output' = NewFile(now)
       ELSE UNCHANGED <<save_record_count, closed, output>>
    /\ save_pc' = "awake"
    /\ UNCHANGED <<saveRest, now, wake, sweep_start, sweep_interval, last_record, scan_steps>>

InitSave ==
    /\ sweep_interval \in Intervals
    /\ scan_steps \in {1, 2}
    /\ now \in SaveStart..(SaveStart + TicksPerSec)
    /\ save_record_count \in {0, MAX_RECORDS - 2}
    /\ output = [name |-> time_str(now - save_record_count * sweep_interval * TicksPerSec),
                 records |-> save_record_count]
    /\ closed = << >> /\ last_record = << >> /\ wake = 0 /\ sweep_start = 0
    /\ save_pc = "awake"
    /\ headers = << >> /\ power_data = << >>
    /\ first_header = ZeroHeader
    /\ lines_per_record = 0
    /\ input = << >> /\ real_line_count = 0 /\ in_record_line_count = 0
    /\ role = "none" /\ status = "ok" /\ err = "none" /\ err_line = 0
    /\ mod_zero = "unevaluated"
    /\ CheckIdle
    /\ MainIdle
    /\ RenderIdle
    /\ CapIdle
    /\ TwiceIdle

NextSave ==
    \/ AwakeTime
    \/ SleepUntil
    \/ Sweep
    \/ Rotate

SpecSave == InitSave /\ [][NextSave]_vars

C32_AtMostMaxRecords ==
    save_pc # "idle" =>
        /\ output.records <= MAX_RECORDS
        /\ \A k \in 1..Len(closed) : closed[k].records = MAX_RECORDS
        /\ save_record_count = output.records
        /\ save_pc # "rotate" => save_record_count < MAX_RECORDS

\* a file was closed full and the next sweep went to the new file
C32_Witness ==
    /\ Len(closed) = 1
    /\ closed[1].records = MAX_RECORDS
    /\ output.records = 1
    /\ save_record_count = 1

\* C37: every record read_scanraw appends is one header line declaring
\* steps, then exactly steps data lines, then one blank line, whatever the
\* device replied.
C37_RecordConforms ==
    last_record # << >> =>
        /\ Head(last_record)[4] = N(scan_steps)
        /\ Len(last_record) = scan_steps + 2
        /\ \A k \in 2..(Len(last_record) - 1) : Len(last_record[k]) = 1
        /\ last_record[Len(last_record)] = EmptyLine
====
